---------------------------- MODULE Spec2Model ----------------------------
(***************************************************************************)
(* A model of the profile matching service: the RealMatchingEngine         *)
(* (services/real_matching_engine.py) with its HTTP handler                *)
(* (production_main.py), the AdvancedAIMatchingEngine                      *)
(* (production_matching_service.py) and the AdaptiveWeightingSystem and    *)
(* EnsembleMatchingEngine (services/ensemble_matcher.py).                  *)
(*                                                                         *)
(* Text is a sequence of characters, each character a one-symbol string.   *)
(* "E^" and "e^" stand for the precomposed letters E-acute and e-acute,    *)
(* "^" for the combining acute accent (Unicode category Mn).               *)
(*                                                                         *)
(* A float score s is the integer s * Unit; every product and quotient the *)
(* code computes on the inputs of this model is exact in that unit (the    *)
(* lengths of two compared texts add up to at most 16).  round(x, 3) is    *)
(* rounding to the nearest thousandth, halves up.                          *)
(***************************************************************************)
EXTENDS Integers, Sequences, FiniteSets, TLC

VARIABLES
    user1,          \* calculate_match_with_context: first profile
    user2,          \* calculate_match_with_context: second profile
    match_context,  \* calculate_match_with_context: context argument
    outcome,        \* what the pair evaluation returned (or that it raised)
    similarity_result,  \* what calculate_comprehensive_similarity returned
    db,             \* the users collection, in the order the database returns it
    request,        \* the body of the last POST /match/find
    response,       \* what the handler answered
    matches,        \* find_matches: the filtered, sorted list before truncation
    evaluated,      \* find_matches: number of (target, candidate) pairs scored
    base_weights,   \* AdaptiveWeightingSystem.base_weights
    user_profile,   \* calculate_weights: its argument
    weights,        \* calculate_weights: the AlgorithmWeight it returned
    engine_runs,    \* what each component engine does when find_matches is called
    algorithm_results,  \* _run_parallel_matching: the MatchingMetrics by algorithm
    ensemble_matches,   \* _combine_algorithm_results: the list it returned
    predictor_scores,   \* predict_relationship_type: overall_score and name_score
    predictor_result,   \* predict_relationship_type: what it returned
    family_results, \* analyze_family_relationship: what it returned for (A, B) and (B, A)
    self_weights,   \* RealMatchingEngine.weights of the engine instance
    repeat_outcome, \* what a second evaluation of the same pair returned
    raw_matches,    \* _calibrate_matches: the ensemble matches it is given
    ensemble_request, \* find_matches: the MatchRequest (models.matching_models)
    calibrated_matches, \* _calibrate_matches: the list it returned
    final_matches,  \* _filter_and_rank_matches: the list it returned
    calibration_data, \* ConfidenceCalibrator.calibration_data
    ingested,       \* history: every (prediction, outcome) pair update_calibration was given, in order
    update_calls,   \* number of update_calibration calls made
    temporal_results, \* calculate_temporal_proximity: what it returned for (A, B) and (B, A)
    in_memory_cache, \* self.in_memory_cache, key -> value
    cache_timestamps, \* self.cache_timestamps, key -> expiry time
    clock,          \* datetime.now(), in seconds
    last_call,      \* the call made last at the current time and what it returned
    recent_set,     \* history: key -> the most recent set(key, value, ttl) and its time
    set_raised      \* history: a set has raised inside its try block

vars == <<user1, user2, match_context, outcome, similarity_result, db, request, response, matches,
          evaluated, base_weights, user_profile, weights, engine_runs, algorithm_results,
          ensemble_matches, predictor_scores,
          predictor_result,
          family_results,
          self_weights, repeat_outcome,
          raw_matches, ensemble_request, calibrated_matches, final_matches,
          calibration_data, ingested, update_calls,
          temporal_results,
          in_memory_cache, cache_timestamps, clock, last_call, recent_set, set_raised>>

pairVars == <<user1, user2, match_context, outcome, similarity_result>>
findVars == <<db, request, response, matches, evaluated>>
weightVars == <<base_weights, user_profile, weights>>
ensembleVars == <<engine_runs, algorithm_results, ensemble_matches>>
predictVars == <<predictor_scores, predictor_result>>
familyVars == <<family_results>>
repeatVars == <<self_weights, repeat_outcome>>
calibrateVars == <<raw_matches, ensemble_request, calibrated_matches, final_matches>>
feedbackVars == <<calibration_data, ingested, update_calls>>
temporalVars == <<temporal_results>>
cacheVars == <<in_memory_cache, cache_timestamps, clock, last_call, recent_set, set_raised>>

-----------------------------------------------------------------------------
(* Numbers *)

\* The float 1.0.  Unit is a multiple of 100 and of 5 * T for every T <= 16, so
\* c, c * (2M/T) and i/T are whole for every two-decimal constant c.
Unit == 25 * 16 * 9 * 7 * 11 * 13

\* The float n/100.
Pct(n) == n * (Unit \div 100)

Min(a, b) == IF a < b THEN a ELSE b
Max(a, b) == IF a > b THEN a ELSE b

\* the difference is left signed
signed(a) == a

Abs(a) == IF a < 0 THEN 0 - a ELSE a

Range(s) == {s[i] : i \in 1..Len(s)}

-----------------------------------------------------------------------------
(* Text *)

UpperLetters == <<"A","B","C","D","E","F","G","H","I","J","K","L","M",
                  "N","O","P","Q","R","S","T","U","V","W","X","Y","Z">>
LowerLetters == <<"a","b","c","d","e","f","g","h","i","j","k","l","m",
                  "n","o","p","q","r","s","t","u","v","w","x","y","z">>
Digits == {"0","1","2","3","4","5","6","7","8","9"}

\* str.lower() on one character
LowerChar(c) ==
    IF c \in Range(UpperLetters)
    THEN LowerLetters[CHOOSE i \in 1..26 : UpperLetters[i] = c]
    ELSE IF c = "E^" THEN "e^" ELSE c

\* the text is left as it is written
as_written(s) == s

\* str.lower()
Lower(s) == [i \in 1..Len(s) |-> LowerChar(s[i])]

\* str.isalpha() on one character
IsAlphaChar(c) ==
    c \in Range(UpperLetters) \cup Range(LowerLetters) \cup {"E^", "e^"}

\* the regular expression class \w
IsWordChar(c) == IsAlphaChar(c) \/ c \in Digits \/ c = "_"

\* the regular expression class \s
IsSpaceChar(c) == c = " "

RECURSIVE FlattenSeq(_)
FlattenSeq(ss) == IF ss = <<>> THEN <<>> ELSE Head(ss) \o FlattenSeq(Tail(ss))

\* unicodedata.normalize('NFD', s)
NFD(s) == FlattenSeq([i \in 1..Len(s) |->
              IF s[i] = "e^" THEN <<"e", "^">>
              ELSE IF s[i] = "E^" THEN <<"E", "^">> ELSE <<s[i]>>])

\* str.split(): the maximal runs of non-space characters
RECURSIVE Split(_)
Split(s) ==
    IF s = <<>> THEN <<>>
    ELSE IF IsSpaceChar(Head(s)) THEN Split(Tail(s))
    ELSE LET n == IF \E i \in 1..Len(s) : IsSpaceChar(s[i])
                  THEN (CHOOSE i \in 1..Len(s) :
                           /\ IsSpaceChar(s[i])
                           /\ \A j \in 1..(i - 1) : ~IsSpaceChar(s[j])) - 1
                  ELSE Len(s)
         IN <<SubSeq(s, 1, n)>> \o Split(SubSeq(s, n + 1, Len(s)))

\* ' '.join(words)
RECURSIVE JoinSpace(_)
JoinSpace(ws) ==
    IF ws = <<>> THEN <<>>
    ELSE IF Len(ws) = 1 THEN ws[1]
    ELSE ws[1] \o <<" ">> \o JoinSpace(Tail(ws))

\* str.strip()
Strip(s) ==
    IF \A i \in 1..Len(s) : IsSpaceChar(s[i]) THEN <<>>
    ELSE LET lo == CHOOSE i \in 1..Len(s) :
                       ~IsSpaceChar(s[i]) /\ \A j \in 1..(i - 1) : IsSpaceChar(s[j])
             hi == CHOOSE i \in 1..Len(s) :
                       ~IsSpaceChar(s[i]) /\ \A j \in (i + 1)..Len(s) : IsSpaceChar(s[j])
         IN SubSeq(s, lo, hi)

\* the two texts are equal
is_same_text(p, s) == p = s

\* p in s
IsSubstring(p, s) ==
    \E i \in 0..(Len(s) - Len(p)) : \A d \in 1..Len(p) : s[i + d] = p[d]

\* SequenceMatcher.find_longest_match over whole texts: the longest common
\* block, the earliest in a among the longest, the earliest in b among those.
LongestMatch(a, b) ==
    LET blocks == {x \in (1..Len(a)) \X (1..Len(b)) \X (1..Min(Len(a), Len(b))) :
                      /\ x[1] + x[3] - 1 <= Len(a)
                      /\ x[2] + x[3] - 1 <= Len(b)
                      /\ \A d \in 0..(x[3] - 1) : a[x[1] + d] = b[x[2] + d]}
    IN IF blocks = {} THEN <<0, 0, 0>>
       ELSE CHOOSE x \in blocks : \A y \in blocks :
                \/ x[3] > y[3]
                \/ x[3] = y[3] /\ x[1] < y[1]
                \/ x[3] = y[3] /\ x[1] = y[1] /\ x[2] <= y[2]

\* SequenceMatcher.get_matching_blocks: total size of the matching blocks
RECURSIVE MatchingSize(_, _)
MatchingSize(a, b) ==
    LET m == LongestMatch(a, b)
    IN IF m[3] = 0 THEN 0
       ELSE m[3]
            + MatchingSize(SubSeq(a, 1, m[1] - 1), SubSeq(b, 1, m[2] - 1))
            + MatchingSize(SubSeq(a, m[1] + m[3], Len(a)),
                           SubSeq(b, m[2] + m[3], Len(b)))

\* SequenceMatcher(None, a, b).ratio() = 2.0 * M / T, and 1.0 when T = 0
Ratio(a, b) ==
    IF Len(a) + Len(b) = 0 THEN Unit
    ELSE (2 * MatchingSize(a, b) * Unit) \div (Len(a) + Len(b))

-----------------------------------------------------------------------------
(* RealMatchingEngine: normalisation *)

\* a reason string: a fixed head followed by the characters formatted into it
Reason(head, tail) == <<head>> \o tail

normalize_name(name) ==
    IF name = <<>> THEN <<>>
    ELSE LET decomposed == NFD(Lower(name))
             unmarked == SelectSeq(decomposed, LAMBDA c : c # "^")
             cleaned == SelectSeq(unmarked, LAMBDA c : IsWordChar(c) \/ IsSpaceChar(c))
         IN JoinSpace(Split(cleaned))

\* the words normalize_location removes
LocationStopWords ==
    { <<"c","i","t","y">>, <<"t","o","w","n">>, <<"v","i","l","l","a","g","e">>,
      <<"a","r","e","a">>, <<"d","i","s","t","r","i","c","t">> }

\* re.sub(r'\b(w1|w2|...)\b', '', s), read from position i on
RECURSIVE RemoveWordsFrom(_, _, _)
RemoveWordsFrom(s, i, words) ==
    IF i > Len(s) THEN <<>>
    ELSE LET hit == {w \in words :
                        /\ i + Len(w) - 1 <= Len(s)
                        /\ SubSeq(s, i, i + Len(w) - 1) = w
                        /\ (i = 1 \/ ~IsWordChar(s[i - 1]))
                        /\ (i + Len(w) > Len(s) \/ ~IsWordChar(s[i + Len(w)]))}
         IN IF hit # {}
            THEN RemoveWordsFrom(s, i + Len(CHOOSE w \in hit : TRUE), words)
            ELSE <<s[i]>> \o RemoveWordsFrom(s, i + 1, words)

normalize_location(location) ==
    IF location = <<>> THEN <<>>
    ELSE JoinSpace(Split(RemoveWordsFrom(Strip(Lower(location)), 1, LocationStopWords)))

-----------------------------------------------------------------------------
(* RealMatchingEngine: sub-scorers.  Each returns [score, reasons]. *)

\* self.weights, in hundredths
engine_weights ==
    [name_similarity |-> 35, location_proximity |-> 25, demographic_match |-> 20,
     interests_overlap |-> 15, temporal_proximity |-> 5]

arabic_patterns ==
    { <<"a","h","m","e","d">>, <<"m","o","h","a","m","m","a","d">>,
      <<"h","a","s","s","a","n">>, <<"o","m","a","r">>, <<"a","l","i">>,
      <<"f","a","t","i","m","a">>, <<"a","i","s","h","a">>, <<"z","a","h","r","a">> }

analyze_cultural_names(u1, u2) ==
    LET name1 == Lower(u1.first_name \o <<" ">> \o u1.last_name)
        name2 == Lower(u2.first_name \o <<" ">> \o u2.last_name)
        arabic1 == \E p \in arabic_patterns : IsSubstring(p, name1)
        arabic2 == \E p \in arabic_patterns : IsSubstring(p, name2)
    IN IF arabic1 /\ arabic2 THEN Pct(60) ELSE 0

\* the body of calculate_name_similarity up to its return: the sum and the reasons
name_similarity_sum(u1, u2) ==
    LET name1_first == normalize_name(u1.first_name)
        name1_last == normalize_name(u1.last_name)
        name2_first == normalize_name(u2.first_name)
        name2_last == normalize_name(u2.last_name)
        nothing == [score |-> 0, reasons |-> <<>>]
        last == IF name1_last # <<>> /\ name2_last # <<>> /\ name1_last = name2_last
                THEN [score |-> Pct(80),
                      reasons |-> <<Reason("Same last name: ", name1_last)>>]
                ELSE IF name1_last # <<>> /\ name2_last # <<>>
                THEN LET similarity == Ratio(name1_last, name2_last)
                     IN IF similarity > Pct(80)
                        THEN [score |-> (6 * similarity) \div 10,
                              reasons |-> <<Reason("Similar last name: ",
                                  name1_last \o <<" / ">> \o name2_last)>>]
                        ELSE nothing
                ELSE nothing
        first == IF name1_first # <<>> /\ name2_first # <<>>
                 THEN LET first_similarity == Ratio(name1_first, name2_first)
                      IN IF first_similarity > Pct(70)
                         THEN [score |-> (3 * first_similarity) \div 10,
                               reasons |-> <<Reason("Similar first name: ",
                                   name1_first \o <<" / ">> \o name2_first)>>]
                         ELSE nothing
                 ELSE nothing
        cultural_score == analyze_cultural_names(u1, u2)
        cultural == IF cultural_score > 0
                    THEN [score |-> (cultural_score * 4) \div 10,
                          reasons |-> <<Reason("Similar cultural naming patterns", <<>>)>>]
                    ELSE nothing
    IN [score |-> last.score + first.score + cultural.score,
        reasons |-> last.reasons \o first.reasons \o cultural.reasons]

\* a calculate_name_similarity that returns score instead of min(score, 1.0)
calculate_name_similarity_unclamped(u1, u2) == name_similarity_sum(u1, u2)

calculate_name_similarity(u1, u2) ==
    LET sum == name_similarity_sum(u1, u2)
    IN [score |-> Min(sum.score, Unit), reasons |-> sum.reasons]

locations_nearby(loc1, loc2) == Ratio(loc1, loc2) > Pct(60)

same_region(loc1, loc2) == Range(Split(loc1)) \cap Range(Split(loc2)) # {}

calculate_location_proximity(u1, u2) ==
    LET loc1 == u1.location
        loc2 == u2.location
        loc1_norm == normalize_location(loc1)
        loc2_norm == normalize_location(loc2)
    IN IF loc1 = <<>> \/ loc2 = <<>> THEN [score |-> 0, reasons |-> <<>>]
       ELSE IF loc1_norm = loc2_norm
       THEN [score |-> Pct(90), reasons |-> <<Reason("Same location: ", loc1)>>]
       ELSE IF locations_nearby(loc1_norm, loc2_norm)
       THEN [score |-> Pct(60),
             reasons |-> <<Reason("Nearby locations: ", loc1 \o <<" / ">> \o loc2)>>]
       ELSE IF same_region(loc1_norm, loc2_norm)
       THEN [score |-> Pct(30),
             reasons |-> <<Reason("Same region: ", loc1 \o <<" / ">> \o loc2)>>]
       ELSE [score |-> 0, reasons |-> <<>>]

\* date.today()
Today == [y |-> 2026, m |-> 11, d |-> 4]

\* Optional[int]: None is [isNone |-> TRUE, v |-> 0]
NoneInt == [isNone |-> TRUE, v |-> 0]
SomeInt(n) == [isNone |-> FALSE, v |-> n]

\* the truth value Python gives an Optional[int]
Truthy(a) == ~a.isNone /\ a.v # 0

\* an age for every user: 30 when the birth date gives none
assumed_age(user) ==
    LET dob == user.date_of_birth
    IN IF dob.k \in {"none", "bad"} THEN SomeInt(30)
       ELSE IF Today.m < dob.m \/ (Today.m = dob.m /\ Today.d < dob.d)
       THEN SomeInt(Today.y - dob.y - 1)
       ELSE SomeInt(Today.y - dob.y)

extract_age(user) ==
    LET dob == user.date_of_birth
    IN IF dob.k = "none" THEN NoneInt
       ELSE IF dob.k = "bad" THEN NoneInt
       ELSE LET age == Today.y - dob.y
            IN IF Today.m < dob.m \/ (Today.m = dob.m /\ Today.d < dob.d)
               THEN SomeInt(age - 1)
               ELSE SomeInt(age)

calculate_age_proximity(u1, u2) ==
    LET age1 == extract_age(u1)
        age2 == extract_age(u2)
        age_diff == Abs(age1.v - age2.v)
    IN IF ~Truthy(age1) \/ ~Truthy(age2) THEN 0
       ELSE IF age_diff <= 2 THEN Pct(100)
       ELSE IF age_diff <= 5 THEN Pct(80)
       ELSE IF age_diff <= 10 THEN Pct(60)
       ELSE IF age_diff <= 20 THEN Pct(30)
       ELSE Pct(10)

calculate_gender_compatibility(u1, u2) ==
    LET gender1 == Lower(u1.gender)
        gender2 == Lower(u2.gender)
    IN IF gender1 = <<>> \/ gender2 = <<>> THEN Pct(50)
       ELSE IF gender1 = gender2 THEN Pct(70) ELSE Pct(50)

calculate_professional_match(u1, u2) ==
    LET prof1 == Lower(u1.profession)
        prof2 == Lower(u2.profession)
    IN IF prof1 = <<>> \/ prof2 = <<>> THEN 0 ELSE Ratio(prof1, prof2)

calculate_demographic_match(u1, u2) ==
    LET age_score == calculate_age_proximity(u1, u2)
        gender_score == calculate_gender_compatibility(u1, u2)
        prof_score == calculate_professional_match(u1, u2)
        score == (IF age_score > 0 THEN (age_score * 5) \div 10 ELSE 0)
                 + (gender_score * 3) \div 10
                 + (IF prof_score > 0 THEN (prof_score * 2) \div 10 ELSE 0)
    IN [score |-> Min(score, Unit),
        reasons |->
            (IF age_score > Pct(70)
             THEN <<Reason("Similar age group", <<>>)>> ELSE <<>>)
            \o (IF prof_score > Pct(70)
                THEN <<Reason("Similar profession", <<>>)>> ELSE <<>>)]

\* str(i).strip().lower() on the interest spellings of this model
InterestLower(i) ==
    IF i \in {"Chess", " chess"} THEN "chess"
    ELSE IF i = "Golf" THEN "golf"
    ELSE i

\* interests is absent, a list of strings, or one comma-separated string whose
\* pieces are items; ''.split(',') is [''], so the empty string gives {''}
extract_interests(user) ==
    LET interests == user.interests
    IN IF interests.k = "str"
       THEN IF interests.items = <<>> THEN {""}
            ELSE {InterestLower(i) : i \in Range(interests.items)}
       ELSE IF interests.k = "list"
       THEN {InterestLower(i) : i \in Range(interests.items)}
       ELSE {}

\* the elements of a set in the order CPython happens to iterate them; the
\* model fixes one order
RECURSIVE ListOfSet(_)
ListOfSet(S) ==
    IF S = {} THEN <<>>
    ELSE LET x == CHOOSE x \in S : TRUE IN <<x>> \o ListOfSet(S \ {x})

\* ', '.join(items)
RECURSIVE JoinComma(_)
JoinComma(items) ==
    IF items = <<>> THEN <<>>
    ELSE IF Len(items) = 1 THEN <<items[1]>>
    ELSE <<items[1], ", ">> \o JoinComma(Tail(items))

calculate_interests_overlap(u1, u2) ==
    LET interests1 == extract_interests(u1)
        interests2 == extract_interests(u2)
        intersection == interests1 \cap interests2
        union == interests1 \cup interests2
        common_interests == SubSeq(ListOfSet(intersection), 1,
                                   Min(3, Cardinality(intersection)))
    IN IF interests1 = {} \/ interests2 = {} THEN [score |-> 0, reasons |-> <<>>]
       ELSE [score |-> (Cardinality(intersection) * Unit) \div Cardinality(union),
             reasons |-> IF intersection # {}
                         THEN <<Reason("Common interests: ", JoinComma(common_interests))>>
                         ELSE <<>>]

\* created_at is absent, a text datetime.fromisoformat rejects, or an instant
\* (h hours after a fixed origin).  (created1 - created2).days is the floor of
\* the difference in days.  A rejected text raises ValueError.
calculate_temporal_proximity(u1, u2) ==
    LET created1 == u1.created_at
        created2 == u2.created_at
        time_diff == Abs((created1.h - created2.h) \div 24)
    IN IF created1.k = "none" \/ created2.k = "none"
       THEN [raised |-> FALSE, score |-> 0, reasons |-> <<>>]
       ELSE IF created1.k = "bad" \/ created2.k = "bad"
       THEN [raised |-> TRUE, score |-> 0, reasons |-> <<>>]
       ELSE IF time_diff <= 7
       THEN [raised |-> FALSE, score |-> Pct(80),
             reasons |-> <<Reason("Joined around the same time", <<>>)>>]
       ELSE IF time_diff <= 30 THEN [raised |-> FALSE, score |-> Pct(50), reasons |-> <<>>]
       ELSE IF time_diff <= 90 THEN [raised |-> FALSE, score |-> Pct(20), reasons |-> <<>>]
       ELSE [raised |-> FALSE, score |-> 0, reasons |-> <<>>]

-----------------------------------------------------------------------------
(* RealMatchingEngine: relationship prediction and the pair evaluation *)

\* a prediction whose confidence is always 0.5
unsure(type, label, confidence) ==
    [match_type |-> type, predicted_relationship |-> label, relationship_confidence |-> 50]

\* [match_type, label, confidence]; overall_score is in hundredths of Unit
\* (the weighted sum), name_score in Unit
Prediction(type, label, confidence) ==
    [match_type |-> type, predicted_relationship |-> label,
     relationship_confidence |-> confidence]

\* a predictor without the context branches: the fallback for every context
predict_general(u1, u2, overall_score, name_score, context) ==
    IF name_score > Pct(70) THEN Prediction("family", "possible relative", 80)
    ELSE IF overall_score > 60 * Unit THEN Prediction("friend", "possible friend", 70)
    ELSE Prediction("community", "possible connection", 50)

predict_relationship_type(u1, u2, overall_score, name_score, context) ==
    LET age1 == extract_age(u1)
        age2 == extract_age(u2)
        both == Truthy(age1) /\ Truthy(age2)
        age_diff == IF both THEN Abs(age1.v - age2.v) ELSE 0
        loc1 == Lower(u1.location)
        loc2 == Lower(u2.location)
        prof1 == Lower(u1.profession)
        prof2 == Lower(u2.profession)
        same_location == loc1 # <<>> /\ loc2 # <<>>
                         /\ (IsSubstring(loc1, loc2) \/ IsSubstring(loc2, loc1))
        same_profession == prof1 # <<>> /\ prof2 # <<>> /\ prof1 = prof2
        older == both /\ age1.v > age2.v
    IN IF context = "family" THEN
           IF name_score > Pct(60) THEN
               IF age_diff <= 3 THEN Prediction("family", "possible twin", 90)
               ELSE IF age_diff <= 8 THEN Prediction("family", "possible sibling", 85)
               ELSE IF age_diff <= 15 THEN Prediction("family", "possible cousin", 80)
               ELSE IF age_diff <= 25 THEN
                   IF older THEN Prediction("family", "possible uncle/aunt", 80)
                   ELSE Prediction("family", "possible nephew/niece", 80)
               ELSE IF age_diff <= 40 THEN
                   IF older THEN Prediction("family", "possible parent", 85)
                   ELSE Prediction("family", "possible child", 85)
               ELSE Prediction("family", "possible grandparent/grandchild", 75)
           ELSE IF name_score > Pct(20) \/ same_location THEN
               IF age_diff <= 5 THEN Prediction("family", "possible sibling", 75)
               ELSE IF age_diff <= 15 THEN Prediction("family", "possible cousin", 70)
               ELSE IF age_diff <= 30
               THEN Prediction("family", "possible uncle/aunt or nephew/niece", 70)
               ELSE Prediction("family", "possible distant relative", 65)
           ELSE
               IF age_diff <= 10 THEN Prediction("family", "possible distant cousin", 60)
               ELSE IF age_diff <= 25
               THEN Prediction("family", "possible distant relative", 55)
               ELSE Prediction("family", "possible extended family", 50)
       ELSE IF context = "friend" THEN
           IF same_profession /\ age_diff <= 10
           THEN Prediction("friend", "possible colleague", 80)
           ELSE IF same_location THEN
               IF age_diff <= 5 THEN Prediction("friend", "possible childhood friend", 80)
               ELSE IF age_diff <= 15 THEN Prediction("friend", "possible classmate", 75)
               ELSE Prediction("friend", "possible neighbor", 70)
           ELSE IF name_score > Pct(30) THEN
               IF age_diff <= 5 THEN Prediction("friend", "possible old friend", 75)
               ELSE IF age_diff <= 15 THEN Prediction("friend", "possible school friend", 70)
               ELSE Prediction("friend", "possible acquaintance", 65)
           ELSE IF same_profession
           THEN Prediction("friend", "possible work colleague", 70)
           ELSE IF overall_score > 30 * Unit THEN
               IF age_diff <= 5 THEN Prediction("friend", "possible close friend", 70)
               ELSE IF age_diff <= 15 THEN Prediction("friend", "possible old friend", 65)
               ELSE Prediction("friend", "possible acquaintance", 60)
           ELSE Prediction("friend", "possible social connection", 55)
       ELSE IF context = "community" THEN
           IF same_location /\ same_profession
           THEN Prediction("community", "possible local professional", 75)
           ELSE IF same_location THEN
               IF age_diff <= 10 THEN Prediction("community", "possible neighbor", 70)
               ELSE Prediction("community", "possible local resident", 65)
           ELSE IF same_profession
           THEN Prediction("community", "possible industry peer", 70)
           ELSE IF overall_score > 30 * Unit
           THEN Prediction("community", "possible community member", 60)
           ELSE Prediction("community", "possible connection", 50)
       ELSE
           IF name_score > Pct(70) THEN Prediction("family", "possible relative", 80)
           ELSE IF overall_score > 60 * Unit
           THEN Prediction("friend", "possible friend", 70)
           ELSE Prediction("community", "possible connection", 50)

\* round(score, 3) of a score in Unit, in thousandths
Round3(score) == (10 * score + 18018) \div 36036

\* round(overall_score, 3) of a weighted sum (hundredths of Unit), in thousandths
Round3Overall(overall) == (overall + 180180) \div 360360

\* all_reasons[:5]
reasons_limit == 5

\* calculate_match_with_context.  A scorer that raises ends the call: the
\* exception propagates to the caller.
match_result(u2, name, location, demo, interests, temporal, overall, prediction) ==
    IF temporal.raised THEN [status |-> "raised"]
    ELSE [status |-> "ok",
          user_id |-> u2._id,
          confidence_score |-> Round3Overall(overall),
          confidence_level |-> IF overall >= 80 * Unit THEN "high"
                               ELSE IF overall >= 60 * Unit THEN "medium"
                               ELSE "low",
          match_type |-> prediction.match_type,
          algorithm_scores |->
              [name_similarity |-> Round3(name.score),
               location_proximity |-> Round3(location.score),
               demographic_match |-> Round3(demo.score),
               interests_overlap |-> Round3(interests.score),
               temporal_proximity |-> Round3(temporal.score)],
          match_reasons |->
              SubSeq(name.reasons \o location.reasons \o demo.reasons
                         \o interests.reasons \o temporal.reasons,
                     1, Min(reasons_limit,
                            Len(name.reasons) + Len(location.reasons) + Len(demo.reasons)
                                + Len(interests.reasons) + Len(temporal.reasons))),
          predicted_relationship |-> prediction.predicted_relationship,
          relationship_confidence |-> prediction.relationship_confidence * 10]

\* lines 505-511: the weighted sum over the weight table w (self.weights), in
\* the unit 100 * Unit
weighted_overall(w, name, location, demo, interests, temporal) ==
    name.score * w.name_similarity
    + location.score * w.location_proximity
    + demo.score * w.demographic_match
    + interests.score * w.interests_overlap
    + temporal.score * w.temporal_proximity

\* the weighted sum of an engine as __init__ built it
overall_score(name, location, demo, interests, temporal) ==
    weighted_overall(engine_weights, name, location, demo, interests, temporal)

\* lines 505-533: everything after the five sub-scorers have returned
combine_scores_with(w, u1, u2, context, name, location, demo, interests, temporal) ==
    match_result(u2, name, location, demo, interests, temporal,
                 weighted_overall(w, name, location, demo, interests, temporal),
                 predict_relationship_type(
                     u1, u2, weighted_overall(w, name, location, demo, interests, temporal),
                     name.score, context))

combine_scores(u1, u2, context, name, location, demo, interests, temporal) ==
    combine_scores_with(engine_weights, u1, u2, context, name, location, demo,
                        interests, temporal)

\* calculate_match_with_context of an engine whose self.weights is w
engine_calculate_match_with_context(w, u1, u2, context) ==
    combine_scores_with(w, u1, u2, context,
                        calculate_name_similarity(u1, u2),
                        calculate_location_proximity(u1, u2),
                        calculate_demographic_match(u1, u2),
                        calculate_interests_overlap(u1, u2),
                        calculate_temporal_proximity(u1, u2))

calculate_match_with_context(u1, u2, context) ==
    combine_scores(u1, u2, context,
                   calculate_name_similarity(u1, u2),
                   calculate_location_proximity(u1, u2),
                   calculate_demographic_match(u1, u2),
                   calculate_interests_overlap(u1, u2),
                   calculate_temporal_proximity(u1, u2))

\* a weight table that moves 0.1 from the name to the location each time
recalibrated(w) ==
    [w EXCEPT !.name_similarity = IF @ >= 10 THEN @ - 10 ELSE @,
              !.location_proximity = IF w.name_similarity >= 10 THEN @ + 10 ELSE @]

\* self.weights after calculate_match_with_context: the method reads the
\* table with self.weights[...] and never assigns it
weights_after_match(w) == w

-----------------------------------------------------------------------------
(* AdvancedAIMatchingEngine: helpers.  datetime.now() is the day Today. *)

\* None where the code returns Optional[str]
None == "None"

\* re.sub(r'[^\w\s]', '', name.strip().lower())
advanced_normalize_name(name) ==
    IF name = <<>> THEN <<>>
    ELSE SelectSeq(Strip(Lower(name)), LAMBDA c : IsWordChar(c) \/ IsSpaceChar(c))

\* f"{user.get('first_name', '')} {user.get('last_name', '')}"
FullName(u) == u.first_name \o <<" ">> \o u.last_name

\* location.split(','), every part stripped
RECURSIVE SplitComma(_)
SplitComma(s) ==
    IF \E i \in 1..Len(s) : s[i] = ","
    THEN LET n == CHOOSE i \in 1..Len(s) : s[i] = "," /\ \A j \in 1..(i - 1) : s[j] # ","
         IN <<Strip(SubSeq(s, 1, n - 1))>> \o SplitComma(SubSeq(s, n + 1, Len(s)))
    ELSE <<Strip(s)>>

\* the city and the country; None is the empty text, as the caller only tests
\* a component's truth before it reads it
parse_location(location) ==
    LET parts == SplitComma(location)
    IN IF Len(parts) >= 2
       THEN [city |-> parts[1], country |-> parts[Len(parts)]]
       ELSE [city |-> location, country |-> <<>>]

\* the industries of classify_industry, in the order of the dict
industries ==
    << <<"technology", {<<"e","n","g","i","n","e","e","r">>, <<"d","e","v","e","l","o","p","e","r">>,
                        <<"p","r","o","g","r","a","m","m","e","r">>, <<"s","o","f","t","w","a","r","e">>,
                        <<"t","e","c","h">>, <<"i","t">>, <<"d","a","t","a">>, <<"a","i">>}>>,
       <<"healthcare", {<<"d","o","c","t","o","r">>, <<"n","u","r","s","e">>,
                        <<"p","h","y","s","i","c","i","a","n">>, <<"m","e","d","i","c","a","l">>,
                        <<"h","e","a","l","t","h","c","a","r","e">>, <<"h","o","s","p","i","t","a","l">>}>>,
       <<"education", {<<"t","e","a","c","h","e","r">>, <<"p","r","o","f","e","s","s","o","r">>,
                       <<"e","d","u","c","a","t","o","r">>, <<"a","c","a","d","e","m","i","c">>,
                       <<"s","c","h","o","o","l">>}>>,
       <<"finance", {<<"b","a","n","k","e","r">>, <<"f","i","n","a","n","c","e">>,
                     <<"a","c","c","o","u","n","t","i","n","g">>, <<"e","c","o","n","o","m","i","s","t">>,
                     <<"i","n","v","e","s","t","m","e","n","t">>}>>,
       <<"business", {<<"m","a","n","a","g","e","r">>, <<"e","x","e","c","u","t","i","v","e">>,
                      <<"e","n","t","r","e","p","r","e","n","e","u","r">>, <<"b","u","s","i","n","e","s","s">>,
                      <<"s","a","l","e","s">>, <<"m","a","r","k","e","t","i","n","g">>}>>,
       <<"creative", {<<"a","r","t","i","s","t">>, <<"d","e","s","i","g","n","e","r">>,
                      <<"w","r","i","t","e","r">>, <<"m","u","s","i","c","i","a","n">>,
                      <<"c","r","e","a","t","i","v","e">>, <<"m","e","d","i","a">>}>>,
       <<"service", {<<"c","o","n","s","u","l","t","a","n","t">>, <<"a","d","v","i","s","o","r">>,
                     <<"s","e","r","v","i","c","e">>, <<"s","u","p","p","o","r","t">>,
                     <<"c","u","s","t","o","m","e","r">>}>>,
       <<"legal", {<<"l","a","w","y","e","r">>, <<"a","t","t","o","r","n","e","y">>,
                   <<"l","e","g","a","l">>, <<"j","u","d","g","e">>, <<"l","a","w">>}>>,
       <<"transportation", {<<"p","i","l","o","t">>, <<"d","r","i","v","e","r">>,
                            <<"t","r","a","n","s","p","o","r","t","a","t","i","o","n">>,
                            <<"l","o","g","i","s","t","i","c","s">>, <<"a","v","i","a","t","i","o","n">>}>> >>

\* datetime.strptime(date_of_birth, "%Y-%m-%d"), then the age today
calculate_age(date_of_birth) ==
    IF date_of_birth.k # "date" THEN NoneInt
    ELSE SomeInt(Today.y - date_of_birth.y
                 - (IF Today.m < date_of_birth.m
                       \/ (Today.m = date_of_birth.m /\ Today.d < date_of_birth.d)
                    THEN 1 ELSE 0))

get_life_stage(age) ==
    IF age < 18 THEN "teenage"
    ELSE IF age < 25 THEN "young_adult"
    ELSE IF age < 35 THEN "early_career"
    ELSE IF age < 45 THEN "established"
    ELSE IF age < 60 THEN "mature"
    ELSE "senior"

analyze_name_cultural_patterns(u1, u2) == 0

language_patterns ==
    << <<"Arabic", {<<"m","u","h","a","m","m","a","d">>, <<"a","h","m","e","d">>, <<"a","l","i">>,
                    <<"h","a","s","s","a","n">>, <<"o","m","a","r">>}>>,
       <<"Chinese", {<<"c","h","e","n">>, <<"w","a","n","g">>, <<"l","i">>,
                     <<"z","h","a","n","g">>, <<"l","i","u">>}>>,
       <<"Indian", {<<"k","u","m","a","r">>, <<"s","h","a","r","m","a">>, <<"p","a","t","e","l">>,
                    <<"s","i","n","g","h">>, <<"g","u","p","t","a">>}>> >>

region_patterns ==
    << <<"Middle East", {<<"u","a","e">>, <<"d","u","b","a","i">>,
                         <<"a","b","u"," ","d","h","a","b","i">>, <<"s","a","u","d","i">>,
                         <<"q","a","t","a","r">>}>>,
       <<"South Asia", {<<"i","n","d","i","a">>, <<"p","a","k","i","s","t","a","n">>,
                        <<"b","a","n","g","l","a","d","e","s","h">>}>>,
       <<"East Asia", {<<"c","h","i","n","a">>, <<"j","a","p","a","n">>, <<"k","o","r","e","a">>,
                       <<"s","i","n","g","a","p","o","r","e">>}>>,
       <<"Europe", {<<"f","r","a","n","c","e">>, <<"g","e","r","m","a","n","y">>,
                    <<"i","t","a","l","y">>, <<"s","p","a","i","n">>, <<"u","k">>}>> >>

\* the if / elif chain over a table of patterns: the first entry one of whose
\* patterns occurs in the text, None when there is none
FirstPatternMatch(table, text) ==
    LET hits == {i \in 1..Len(table) : \E p \in table[i][2] : IsSubstring(p, text)}
    IN IF hits = {} THEN None
       ELSE table[CHOOSE i \in hits : \A j \in hits : i <= j][1]

classify_industry(profession) == FirstPatternMatch(industries, Lower(profession))

infer_language_from_name(u) == FirstPatternMatch(language_patterns, Lower(FullName(u)))

infer_cultural_region(u) == FirstPatternMatch(region_patterns, Lower(u.location))

-----------------------------------------------------------------------------
(* AdvancedAIMatchingEngine: analyzers.  Each returns [score, reasons]. *)

\* the first name present, and equal to the second when that is present too
first_named(n1, n2) == n1 # <<>> /\ (n2 = <<>> \/ n1 = n2)

\* both names present and equal
SameName(n1, n2) == n1 # <<>> /\ n2 # <<>> /\ n1 = n2

analyze_family_relationship(u1, u2) ==
    LET father1 == advanced_normalize_name(u1.father_name)
        father2 == advanced_normalize_name(u2.father_name)
        mother1 == advanced_normalize_name(u1.mother_name)
        mother2 == advanced_normalize_name(u2.mother_name)
        same_father == SameName(father1, father2)
        same_mother == SameName(mother1, mother2)
        user1_full_name == advanced_normalize_name(FullName(u1))
        user2_full_name == advanced_normalize_name(FullName(u2))
        parent == user1_full_name # <<>>
                  /\ (user1_full_name = father2 \/ user1_full_name = mother2)
        child == ~parent /\ user2_full_name # <<>>
                 /\ (user2_full_name = father1 \/ user2_full_name = mother1)
        same_last == SameName(advanced_normalize_name(u1.last_name),
                              advanced_normalize_name(u2.last_name))
        score == (IF same_father THEN Pct(50) ELSE 0)
                 + (IF same_mother THEN Pct(50) ELSE 0)
                 + (IF parent \/ child THEN Pct(80) ELSE 0)
                 + (IF same_last THEN Pct(20) ELSE 0)
        siblings == IF same_mother
                    THEN (IF same_father THEN "full sibling" ELSE "maternal sibling")
                    ELSE (IF same_father THEN "paternal half-sibling" ELSE None)
    IN [score |-> Min(score, Unit),
        reasons |->
            (IF same_father THEN <<Reason("Same father: ", u1.father_name)>> ELSE <<>>)
            \o (IF same_mother THEN <<Reason("Same mother: ", u1.mother_name)>> ELSE <<>>)
            \o (IF parent \/ child
                THEN <<Reason("Potential parent-child relationship", <<>>)>> ELSE <<>>)
            \o (IF same_last THEN <<Reason("Same family name: ", u1.last_name)>> ELSE <<>>),
        relationship |-> IF parent THEN "parent" ELSE IF child THEN "child" ELSE siblings]

\* the else branch of analyze_location_similarity: the locations differ
location_parts_similarity(loc1, loc2) ==
    LET loc1_parts == parse_location(loc1)
        loc2_parts == parse_location(loc2)
        same_city == loc1_parts.city # <<>> /\ loc2_parts.city # <<>>
                     /\ Lower(loc1_parts.city) = Lower(loc2_parts.city)
        same_country == loc1_parts.country # <<>> /\ loc2_parts.country # <<>>
                        /\ Lower(loc1_parts.country) = Lower(loc2_parts.country)
        parts == (IF same_city THEN Pct(70) ELSE 0) + (IF same_country THEN Pct(30) ELSE 0)
        similarity == Ratio(Lower(loc1), Lower(loc2))
    IN [score |-> IF similarity > Pct(60) THEN Max(parts, (similarity * 4) \div 5) ELSE parts,
        reasons |->
            (IF same_city THEN <<Reason("Same city: ", loc1_parts.city)>> ELSE <<>>)
            \o (IF same_country THEN <<Reason("Same country: ", loc1_parts.country)>> ELSE <<>>)
            \o (IF similarity > Pct(60)
                THEN <<Reason("Similar location areas", <<>>)>> ELSE <<>>)]

analyze_location_similarity(u1, u2) ==
    LET loc1 == Strip(u1.location)
        loc2 == Strip(u2.location)
    IN IF loc1 = <<>> \/ loc2 = <<>> THEN [score |-> 0, reasons |-> <<>>]
       ELSE IF Lower(loc1) = Lower(loc2)
       THEN [score |-> Unit, reasons |-> <<Reason("Same location: ", loc1)>>]
       ELSE [score |-> Min(location_parts_similarity(loc1, loc2).score, Unit),
             reasons |-> location_parts_similarity(loc1, loc2).reasons]

\* the else branch of analyze_profession_similarity: the professions differ
related_profession_similarity(prof1, prof2) ==
    LET industry1 == classify_industry(prof1)
        industry2 == classify_industry(prof2)
        same_industry == industry1 # None /\ industry2 # None /\ industry1 = industry2
        similarity == Ratio(Lower(prof1), Lower(prof2))
    IN [score |-> IF similarity > Pct(50)
                  THEN Max(IF same_industry THEN Pct(60) ELSE 0, (similarity * 7) \div 10)
                  ELSE IF same_industry THEN Pct(60) ELSE 0,
        reasons |->
            (IF same_industry THEN <<Reason("Same industry: ", <<industry1>>)>> ELSE <<>>)
            \o (IF similarity > Pct(50) THEN <<Reason("Related profession", <<>>)>> ELSE <<>>)]

analyze_profession_similarity(u1, u2) ==
    LET prof1 == Strip(u1.profession)
        prof2 == Strip(u2.profession)
    IN IF prof1 = <<>> \/ prof2 = <<>> THEN [score |-> 0, reasons |-> <<>>]
       ELSE IF Lower(prof1) = Lower(prof2)
       THEN [score |-> Unit, reasons |-> <<Reason("Same profession: ", prof1)>>]
       ELSE [score |-> Min(related_profession_similarity(prof1, prof2).score, Unit),
             reasons |-> related_profession_similarity(prof1, prof2).reasons]

\* analyze_age_compatibility once both ages are known
age_compatibility(age1, age2) ==
    LET age_diff == Abs(age1 - age2)
        same_stage == get_life_stage(age1) = get_life_stage(age2)
        closeness == IF age_diff <= 3 THEN Unit
                     ELSE IF age_diff <= 7 THEN Pct(80)
                     ELSE IF age_diff <= 15 THEN Pct(50)
                     ELSE IF age_diff <= 25 THEN Pct(20)
                     ELSE 0
    IN [score |-> Min(closeness + (IF same_stage THEN Pct(20) ELSE 0), Unit),
        reasons |->
            (IF age_diff <= 3 THEN <<Reason("Very close in age", <<>>)>>
             ELSE IF age_diff <= 7 THEN <<Reason("Similar age group", <<>>)>>
             ELSE IF age_diff <= 15 THEN <<Reason("Compatible age range", <<>>)>>
             ELSE IF age_diff <= 25 THEN <<Reason("Different generations but compatible", <<>>)>>
             ELSE <<>>)
            \o (IF same_stage
                THEN <<Reason("Same life stage: ", <<get_life_stage(age1)>>)>> ELSE <<>>)]

analyze_age_compatibility(u1, u2) ==
    LET age1 == calculate_age(u1.date_of_birth)
        age2 == calculate_age(u2.date_of_birth)
    IN IF ~Truthy(age1) \/ ~Truthy(age2) THEN [score |-> 0, reasons |-> <<>>]
       ELSE age_compatibility(age1.v, age2.v)

analyze_name_similarity(u1, u2) ==
    LET first1 == advanced_normalize_name(u1.first_name)
        first2 == advanced_normalize_name(u2.first_name)
        similarity == IF first1 # <<>> /\ first2 # <<>> THEN Ratio(first1, first2) ELSE 0
        same_last == SameName(advanced_normalize_name(u1.last_name),
                              advanced_normalize_name(u2.last_name))
        cultural_score == analyze_name_cultural_patterns(u1, u2)
        score == (IF similarity > Pct(80) THEN Pct(30)
                  ELSE IF similarity > Pct(60) THEN Pct(20) ELSE 0)
                 + (IF same_last THEN Pct(40) ELSE 0)
                 + (IF cultural_score > 0 THEN (cultural_score * 3) \div 10 ELSE 0)
    IN [score |-> Min(score, Unit),
        reasons |->
            (IF similarity > Pct(80) THEN <<Reason("Very similar first names", <<>>)>>
             ELSE IF similarity > Pct(60) THEN <<Reason("Similar first names", <<>>)>>
             ELSE <<>>)
            \o (IF cultural_score > 0
                THEN <<Reason("Similar cultural naming patterns", <<>>)>> ELSE <<>>)]

analyze_cultural_similarity(u1, u2) ==
    LET lang1 == infer_language_from_name(u1)
        lang2 == infer_language_from_name(u2)
        same_lang == lang1 # None /\ lang2 # None /\ lang1 = lang2
        region1 == infer_cultural_region(u1)
        region2 == infer_cultural_region(u2)
        regions_match == region1 # None /\ region2 # None /\ region1 = region2
    IN [score |-> Min((IF same_lang THEN Pct(50) ELSE 0)
                      + (IF regions_match THEN Pct(30) ELSE 0), Unit),
        reasons |->
            (IF same_lang THEN <<Reason("Similar cultural background: ", <<lang1>>)>> ELSE <<>>)
            \o (IF regions_match
                THEN <<Reason("Same cultural region: ", <<region1>>)>> ELSE <<>>)]

-----------------------------------------------------------------------------
(* AdvancedAIMatchingEngine: the combined similarity of two profiles *)

\* "word in reason.lower()".  Of the fixed texts the analyzers put in a reason,
\* only "Same profession: " and "Related profession" hold one of the words the
\* code looks for; the rest of a reason is profile text.
ReasonMentions(reason, word) ==
    \/ word = <<"p","r","o","f","e","s","s","i","o","n">>
       /\ Head(reason) \in {"Same profession: ", "Related profession"}
    \/ IsSubstring(word, Lower(Tail(reason)))

\* the loop of predict_friend_relationship over the reasons
RECURSIVE relationship_from_reasons(_)
relationship_from_reasons(reasons) ==
    IF reasons = <<>> THEN None
    ELSE IF ReasonMentions(Head(reasons), <<"s","c","h","o","o","l">>) THEN "old classmate"
    ELSE IF ReasonMentions(Head(reasons), <<"c","h","i","l","d","h","o","o","d">>)
            \/ ReasonMentions(Head(reasons), <<"g","r","e","w"," ","u","p">>)
    THEN "childhood friend"
    ELSE IF ReasonMentions(Head(reasons), <<"n","e","i","g","h","b","o","r">>) THEN "old neighbor"
    ELSE IF ReasonMentions(Head(reasons), <<"p","r","o","f","e","s","s","i","o","n">>)
            \/ ReasonMentions(Head(reasons), <<"w","o","r","k">>)
    THEN "professional connection"
    ELSE relationship_from_reasons(Tail(reasons))

\* The documents of this model have no school, college or university field, so
\* the three classmate tests at the head of the function fail.
predict_friend_relationship(u1, u2, algorithm_scores, reasons) ==
    LET age1 == calculate_age(u1.date_of_birth)
        age2 == calculate_age(u2.date_of_birth)
        ages == Truthy(age1) /\ Truthy(age2)
        age_diff == Abs(age1.v - age2.v)
    IN IF ages /\ age_diff <= 5 /\ algorithm_scores.location > Pct(70)
       THEN (IF age1.v < 25 \/ age2.v < 25 THEN "childhood friend"
             ELSE "old neighborhood friend")
       ELSE IF u1.profession # <<>> /\ u2.profession # <<>>
               /\ algorithm_scores.profession > Pct(60)
       THEN "colleague"
       ELSE IF relationship_from_reasons(reasons) # None
       THEN relationship_from_reasons(reasons)
       ELSE IF ages /\ age_diff <= 3 THEN "peer friend"
       ELSE IF ages /\ age_diff <= 10 THEN "friend"
       ELSE "possible friend"

\* the weights of calculate_comprehensive_similarity, in hundredths
similarity_weights ==
    [family |-> 40, location |-> 20, profession |-> 15, age |-> 10, name |-> 10,
     cultural |-> 5]

\* "if result['score'] > 0": what one analyzer adds to the total and the reasons
Contribution(result, weight) ==
    IF result.score > 0
    THEN [total |-> result.score * weight, reasons |-> result.reasons]
    ELSE [total |-> 0, reasons |-> <<>>]

\* calculate_comprehensive_similarity once the six analyzers have returned;
\* total_score is in the unit 100 * Unit
combine_similarity(u1, u2, family, location, profession, age, name, cultural) ==
    LET algorithm_scores ==
            [family |-> family.score, location |-> location.score,
             profession |-> profession.score, age |-> age.score, name |-> name.score,
             cultural |-> cultural.score]
        total_score ==
            Contribution(family, similarity_weights.family).total
            + Contribution(location, similarity_weights.location).total
            + Contribution(profession, similarity_weights.profession).total
            + Contribution(age, similarity_weights.age).total
            + Contribution(name, similarity_weights.name).total
            + Contribution(cultural, similarity_weights.cultural).total
        reasons ==
            Contribution(family, similarity_weights.family).reasons
            \o Contribution(location, similarity_weights.location).reasons
            \o Contribution(profession, similarity_weights.profession).reasons
            \o Contribution(age, similarity_weights.age).reasons
            \o Contribution(name, similarity_weights.name).reasons
            \o Contribution(cultural, similarity_weights.cultural).reasons
        related == family.score > 0 /\ family.relationship # None
    IN [total_score |-> Min(total_score, 100 * Unit),
        match_type |-> IF family.score > Pct(30) THEN "family"
                       ELSE IF total_score > 30 * Unit THEN "friend"
                       ELSE IF total_score > 20 * Unit THEN "community"
                       ELSE IF related THEN "family" ELSE "community",
        reasons |-> IF reasons = <<>> THEN <<Reason("Profile compatibility", <<>>)>>
                    ELSE reasons,
        algorithm_scores |-> algorithm_scores,
        predicted_relationship |->
            IF related THEN family.relationship
            ELSE IF family.score <= Pct(30) /\ total_score > 30 * Unit
            THEN predict_friend_relationship(u1, u2, algorithm_scores, reasons)
            ELSE None]

calculate_comprehensive_similarity(u1, u2) ==
    combine_similarity(u1, u2,
                       analyze_family_relationship(u1, u2),
                       analyze_location_similarity(u1, u2),
                       analyze_profession_similarity(u1, u2),
                       analyze_age_compatibility(u1, u2),
                       analyze_name_similarity(u1, u2),
                       analyze_cultural_similarity(u1, u2))

-----------------------------------------------------------------------------
(* find_matches of both engines.  min_confidence is in thousandths. *)

\* list[:n]
Slice(list, n) ==
    IF n >= 0 THEN SubSeq(list, 1, Min(n, Len(list)))
    ELSE SubSeq(list, 1, Max(Len(list) + n, 0))

\* list.sort(key=lambda x: x['confidence_score'], reverse=True) places one
\* element: the sort is stable, so it goes behind every element that is not
\* smaller
RECURSIVE InsertByConfidence(_, _)
InsertByConfidence(sorted, x) ==
    IF sorted = <<>> THEN <<x>>
    ELSE IF Head(sorted).confidence_score >= x.confidence_score
    THEN <<Head(sorted)>> \o InsertByConfidence(Tail(sorted), x)
    ELSE <<x>> \o sorted

\* the order of the list is kept: no sort
unsorted(list) == list

RECURSIVE sort_by_confidence(_)
sort_by_confidence(list) ==
    IF list = <<>> THEN <<>>
    ELSE InsertByConfidence(sort_by_confidence(SubSeq(list, 1, Len(list) - 1)),
                            list[Len(list)])

\* the filter of the real engine, on the rounded score: strictly above
above_confidence(m, min_confidence) == m.confidence_score > min_confidence

\* the filter of the real engine, on the rounded score
meets_confidence(m, min_confidence) == m.confidence_score >= min_confidence

\* the position of the first outcome that raised, 0 when none did
FirstRaised(results) ==
    IF \E i \in 1..Len(results) : results[i].status = "raised"
    THEN CHOOSE i \in 1..Len(results) :
             results[i].status = "raised"
             /\ \A j \in 1..(i - 1) : results[j].status # "raised"
    ELSE 0

\* find_matches of the real engine once every candidate has been evaluated
\* (results) or one evaluation has raised and ended the loop
rank_matches(results, max_results, min_confidence) ==
    IF FirstRaised(results) > 0
    THEN [raised |-> TRUE, matches |-> <<>>, returned |-> <<>>,
          evaluated |-> FirstRaised(results)]
    ELSE [raised |-> FALSE,
          matches |-> sort_by_confidence(
              SelectSeq(results, LAMBDA r : meets_confidence(r, min_confidence))),
          returned |-> Slice(sort_by_confidence(
              SelectSeq(results, LAMBDA r : meets_confidence(r, min_confidence))),
              max_results),
          evaluated |-> Len(results)]

\* the target is the last user of the list with the id, the candidates are the
\* other users in the order of the list
WithId(users, user_id) == SelectSeq(users, LAMBDA u : u._id = user_id)
WithoutId(users, user_id) == SelectSeq(users, LAMBDA u : u._id # user_id)

\* the loop of the real engine over the candidates
candidate_results(target_user, candidate_users, context) ==
    [i \in 1..Len(candidate_users) |->
        calculate_match_with_context(target_user, candidate_users[i], context)]

find_matches(target_user_id, all_users, max_results, min_confidence, context) ==
    IF WithId(all_users, target_user_id) = <<>>
    THEN [raised |-> FALSE, matches |-> <<>>, returned |-> <<>>, evaluated |-> 0]
    ELSE rank_matches(
             candidate_results(
                 WithId(all_users, target_user_id)[Len(WithId(all_users, target_user_id))],
                 WithoutId(all_users, target_user_id), context),
             max_results, min_confidence)

\* one match of the advanced engine; confidence_score is total_score, in the
\* unit 100 * Unit
advanced_match(other_user, sim) ==
    [user_id |-> other_user._id,
     confidence_score |-> sim.total_score,
     match_type |-> sim.match_type,
     match_reasons |-> sim.reasons,
     algorithm_scores |-> sim.algorithm_scores,
     predicted_relationship |-> sim.predicted_relationship]

\* total_score >= min_confidence
meets_min_confidence(m, min_confidence) ==
    m.confidence_score >= min_confidence * ((100 * Unit) \div 1000)

\* the loop of the advanced engine over the other users
other_user_matches(current_user, other_users) ==
    [i \in 1..Len(other_users) |->
        advanced_match(other_users[i],
                       calculate_comprehensive_similarity(current_user, other_users[i]))]

\* find_matches of the advanced engine once every other user has been scored
advanced_rank_matches(scored, max_results, min_confidence) ==
    [raised |-> FALSE,
     matches |-> sort_by_confidence(
         SelectSeq(scored, LAMBDA m : meets_min_confidence(m, min_confidence))),
     returned |-> Slice(sort_by_confidence(
         SelectSeq(scored, LAMBDA m : meets_min_confidence(m, min_confidence))),
         max_results),
     evaluated |-> Len(scored)]

advanced_find_matches(user_id, users, options) ==
    IF WithId(users, user_id) = <<>>
    THEN [raised |-> FALSE, matches |-> <<>>, returned |-> <<>>, evaluated |-> 0]
    ELSE advanced_rank_matches(
             other_user_matches(WithId(users, user_id)[1], WithoutId(users, user_id)),
             options.max_results, options.min_confidence)

-----------------------------------------------------------------------------
(* AdaptiveWeightingSystem (services/ensemble_matcher.py).  An AlgorithmWeight *)
(* holds four fractions with one denominator: the weight w is w / den.        *)

\* the defaults of the dataclass
AlgorithmWeight == [tensorflow |-> 35, nlp |-> 25, graph |-> 25, genetic |-> 15, den |-> 100]

\* weights.<field> *= tenths / 10 for each field, on one denominator
Scaled(w, tf, nl, gr, ge) ==
    [tensorflow |-> w.tensorflow * tf, nlp |-> w.nlp * nl, graph |-> w.graph * gr,
     genetic |-> w.genetic * ge, den |-> w.den * 10]

\* the weights are left as they are
unnormalized(w) == w

\* AlgorithmWeight.normalize: each weight divided by the total when total > 0
normalize(w) ==
    IF w.tensorflow + w.nlp + w.graph + w.genetic > 0
    THEN [w EXCEPT !.den = w.tensorflow + w.nlp + w.graph + w.genetic]
    ELSE w

\* A user profile of this model: three texts (empty when absent), four fields
\* that are filled or not, the number of connections, and whether dna_data and
\* genetic_markers hold anything.
NoProfile ==
    [first_name |-> <<>>, last_name |-> <<>>, location |-> <<>>, birth_date |-> FALSE,
     profession |-> FALSE, cultural_background |-> FALSE, family_origin |-> FALSE,
     connections |-> 0, dna_data |-> FALSE, genetic_markers |-> FALSE]

\* the number of the seven required fields the profile fills
filled_fields(profile) ==
    (IF profile.first_name # <<>> THEN 1 ELSE 0)
    + (IF profile.last_name # <<>> THEN 1 ELSE 0)
    + (IF profile.location # <<>> THEN 1 ELSE 0)
    + (IF profile.birth_date THEN 1 ELSE 0)
    + (IF profile.profession THEN 1 ELSE 0)
    + (IF profile.cultural_background THEN 1 ELSE 0)
    + (IF profile.family_origin THEN 1 ELSE 0)

\* filled_fields / 7
calculate_profile_completeness(profile) == (filled_fields(profile) * Unit) \div 7

\* str.isalpha()
IsAlpha(s) == s # <<>> /\ \A i \in 1..Len(s) : IsAlphaChar(s[i])

assess_name_location_quality(profile) ==
    Min((IF Len(profile.first_name) > 1 /\ IsAlpha(profile.first_name) THEN Pct(30) ELSE 0)
        + (IF Len(profile.last_name) > 1 /\ IsAlpha(profile.last_name) THEN Pct(30) ELSE 0)
        + (IF Len(profile.location) > 3 THEN Pct(20) ELSE 0)
        + (IF Len(profile.location) > 3 /\ \E i \in 1..Len(profile.location) :
                                               profile.location[i] = ","
           THEN Pct(20) ELSE 0),
        Unit)

\* the four adjustments of calculate_weights, in tenths
adjust_weights(w, completeness, name_quality, connected, genetic_data) ==
    Scaled(w,
           IF completeness > Pct(80) THEN 13 ELSE IF completeness < Pct(30) THEN 7 ELSE 10,
           IF name_quality > Pct(80) THEN 14 ELSE IF name_quality < Pct(30) THEN 6 ELSE 10,
           IF connected THEN 13 ELSE 8,
           IF genetic_data THEN 15 ELSE 5)

\* calculate_weights builds a new AlgorithmWeight from the fields of
\* base_weights and changes only this new object
calculate_weights(base, profile) ==
    normalize(adjust_weights(base,
                             calculate_profile_completeness(profile),
                             assess_name_location_quality(profile),
                             profile.connections > 0,
                             profile.dna_data \/ profile.genetic_markers))

-----------------------------------------------------------------------------
(* EnsembleMatchingEngine (services/ensemble_matcher.py).  A confidence score *)
(* of a component engine is in hundredths.  A run of an engine is what its    *)
(* find_matches does when called: it raises or returns a list of matches.     *)

\* the keys of the dict algorithms, in insertion order
algorithm_names == <<"tensorflow", "nlp", "graph", "genetic">>

\* weight_dict: the weight of each algorithm (numerators over weights.den)
weight_dict(w) ==
    [alg \in Range(algorithm_names) |->
        CASE alg = "tensorflow" -> w.tensorflow
          [] alg = "nlp" -> w.nlp
          [] alg = "graph" -> w.graph
          [] alg = "genetic" -> w.genetic]

\* run_algorithm: the MatchingMetrics of one engine; success is False when its
\* find_matches raised
run_algorithm(run) ==
    [success |-> ~run.raised, match_count |-> IF run.raised THEN 0 ELSE Len(run.matches)]

\* _run_parallel_matching: metrics_dict
run_parallel_matching(runs) ==
    [alg \in Range(algorithm_names) |-> run_algorithm(runs[alg].first)]

\* the matches _combine_algorithm_results takes from one engine: none when its
\* first run failed, none when this second call raises
engine_matches(metrics, runs, alg) ==
    IF metrics[alg].success /\ ~runs[alg].second.raised
    THEN runs[alg].second.matches
    ELSE <<>>

\* the keys of all_matches in insertion order: the user ids in the order the
\* engines report them first
RECURSIVE first_seen(_, _)
first_seen(reported, seen) ==
    IF reported = <<>> THEN seen
    ELSE first_seen(Tail(reported),
                    IF \E i \in 1..Len(seen) : seen[i] = Head(reported).user_id
                    THEN seen
                    ELSE Append(seen, Head(reported).user_id))

\* all_matches[match_user_id][alg_name] = confidence: a later match of the same
\* engine for the same user overwrites an earlier one
last_confidence(list, user_id) ==
    list[CHOOSE i \in 1..Len(list) :
            /\ list[i].user_id = user_id
            /\ \A j \in (i + 1)..Len(list) : list[j].user_id # user_id].confidence_score

\* all_matches[match_user_id]: the reporting algorithms with their scores
algorithm_scores_of(metrics, runs, user_id) ==
    LET reporting == SelectSeq(algorithm_names,
                               LAMBDA alg : \E i \in 1..Len(engine_matches(metrics, runs, alg)) :
                                   engine_matches(metrics, runs, alg)[i].user_id = user_id)
    IN  [k \in 1..Len(reporting) |->
            [algorithm |-> reporting[k],
             score |-> last_confidence(engine_matches(metrics, runs, reporting[k]), user_id)]]

RECURSIVE weighted_score_sum(_, _)
weighted_score_sum(scores, wd) ==
    IF scores = <<>> THEN 0
    ELSE Head(scores).score * wd[Head(scores).algorithm] + weighted_score_sum(Tail(scores), wd)

RECURSIVE weight_sum(_, _)
weight_sum(scores, wd) ==
    IF scores = <<>> THEN 0
    ELSE wd[Head(scores).algorithm] + weight_sum(Tail(scores), wd)

\* the weighted sum is left undivided by the weights present (the weights of
\* all four algorithms sum to w.den)
weighted_sum_only(scores, w) ==
    [num |-> weighted_score_sum(scores, weight_dict(w)), den |-> w.den]

\* ensemble_score = total_weighted_score / total_weight, as the fraction
\* num / den of hundredths; the common denominator of the weights cancels
weighted_average(scores, w) ==
    [num |-> weighted_score_sum(scores, weight_dict(w)),
     den |-> weight_sum(scores, weight_dict(w))]

\* one entry of ensemble_matches
ensemble_match(user_id, scores, w) ==
    [user_id |-> user_id,
     ensemble_score |-> weighted_average(scores, w),
     algorithm_scores |-> scores,
     contributing_algorithms |-> [k \in 1..Len(scores) |-> scores[k].algorithm],
     algorithm_agreement |-> Len(scores)]

\* the ensemble matches of the users in ids; an entry is added only if
\* total_weight > 0
ensemble_matches_of(metrics, runs, w, ids) ==
    SelectSeq([k \in 1..Len(ids) |->
                  ensemble_match(ids[k], algorithm_scores_of(metrics, runs, ids[k]), w)],
              LAMBDA m : m.ensemble_score.den > 0)

\* EnsembleMatchingEngine._combine_algorithm_results
combine_algorithm_results(metrics, w, runs) ==
    ensemble_matches_of(metrics, runs, w,
        first_seen(FlattenSeq([k \in 1..Len(algorithm_names) |->
                                  engine_matches(metrics, runs, algorithm_names[k])]),
                   <<>>))

-----------------------------------------------------------------------------
(* ConfidenceCalibrator and the last two stages of find_matches.  A raw      *)
(* score is in hundredths, a calibrated confidence in units of 1 / Scale.    *)

Scale == 100000

calibration_factors == [tensorflow |-> 95, nlp |-> 85, graph |-> 90, genetic |-> 98]

\* calibration_factors.get(algorithm, 0.80)
default_factor == 80

calibration_factor(algorithm) ==
    IF algorithm \in DOMAIN calibration_factors
    THEN calibration_factors[algorithm]
    ELSE default_factor

\* number of terms of the exponential series
ExpTerms == 14

\* np.exp(t) for t in ten-thousandths, in units of 1 / Scale: the series
\* 1 + t + t^2/2! + ..., term k + 1 being term k * t / (k + 1)
RECURSIVE exp_series(_, _, _, _)
exp_series(t, k, term, sum) ==
    IF k > ExpTerms THEN sum
    ELSE exp_series(t, k + 1, (term * t) \div (10000 * k),
                    sum + (term * t) \div (10000 * k))

exp(t) == exp_series(t, 1, Scale, Scale)

\* 1 / (1 + np.exp(-2 * (calibrated - 0.5))), calibrated in ten-thousandths
sigmoid(calibrated) ==
    (Scale * 10000) \div ((Scale + exp(10000 - 2 * calibrated)) \div 10)

\* ConfidenceCalibrator.calibrate_score(raw_score, algorithm, user_context)
calibrate_score(raw_score, algorithm) ==
    sigmoid(raw_score * calibration_factor(algorithm))

\* self.calibration_data[-10000:]
calibration_limit == 10000

\* zip(predictions, actual_outcomes): as many pairs as the shorter list has
zip(predictions, actual_outcomes) ==
    [i \in 1..Min(Len(predictions), Len(actual_outcomes)) |->
        <<predictions[i], actual_outcomes[i]>>]

\* every pair is kept
keep_all(data) == data

\* if len(self.calibration_data) > 10000: keep self.calibration_data[-10000:]
keep_recent(data) ==
    IF Len(data) > calibration_limit
    THEN SubSeq(data, Len(data) - calibration_limit + 1, Len(data))
    ELSE data

\* ConfidenceCalibrator.update_calibration: self.calibration_data after the call
update_calibration(data, predictions, actual_outcomes) ==
    keep_recent(data \o zip(predictions, actual_outcomes))

\* EnsembleMatchingEngine._calibrate_matches
calibrate_matches(list) ==
    [k \in 1..Len(list) |->
        [user_id |-> list[k].user_id,
         ensemble_score |-> list[k].ensemble_score,
         contributing_algorithms |-> list[k].contributing_algorithms,
         confidence_score |-> calibrate_score(list[k].ensemble_score, "ensemble"),
         raw_ensemble_score |-> list[k].ensemble_score]]

\* EnsembleMatchingEngine._determine_match_type
determine_match_type(confidence) ==
    IF confidence >= 80 * (Scale \div 100) THEN "family"
    ELSE IF confidence >= 60 * (Scale \div 100) THEN "friend"
    ELSE "community"

\* request.min_confidence or 0.5, in units of 1 / Scale
confidence_threshold(req) ==
    (IF Truthy(req.min_confidence) THEN req.min_confidence.v ELSE 50) * (Scale \div 100)

\* request.max_results or 50
result_limit(req) == IF Truthy(req.max_results) THEN req.max_results.v ELSE 50

\* MatchResult(...) of one calibrated match
ensemble_result(m) ==
    [user_id |-> m.user_id,
     confidence_score |-> m.confidence_score,
     match_type |-> determine_match_type(m.confidence_score),
     ensemble_score |-> m.raw_ensemble_score,
     contributing_algorithms |-> m.contributing_algorithms]

\* EnsembleMatchingEngine._filter_and_rank_matches
filter_and_rank_matches(list, req) ==
    LET filtered_matches ==
            SelectSeq(list, LAMBDA m : m.confidence_score >= confidence_threshold(req))
        limited_matches == Slice(sort_by_confidence(filtered_matches), result_limit(req))
    IN [k \in 1..Len(limited_matches) |-> ensemble_result(limited_matches[k])]

-----------------------------------------------------------------------------
(* Profiles: the documents of the users collection *)

NoDate == [k |-> "none", y |-> 0, m |-> 0, d |-> 0]
BadDate == [k |-> "bad", y |-> 0, m |-> 0, d |-> 0]
Date(y, m, d) == [k |-> "date", y |-> y, m |-> m, d |-> d]

NoTime == [k |-> "none", h |-> 0]
BadTime == [k |-> "bad", h |-> 0]
Time(h) == [k |-> "time", h |-> h]

NoInterests == [k |-> "none", items |-> <<>>]
InterestList(items) == [k |-> "list", items |-> items]
InterestString(items) == [k |-> "str", items |-> items]

\* a document with no field but its _id
Blank(id) ==
    [_id |-> id, first_name |-> <<>>, last_name |-> <<>>, location |-> <<>>,
     date_of_birth |-> NoDate, gender |-> <<>>, profession |-> <<>>,
     interests |-> NoInterests, created_at |-> NoTime,
     father_name |-> <<>>, mother_name |-> <<>>]

\* a document with every field filled
Full(id) ==
    [_id |-> id, first_name |-> <<"O","m","a","r">>, last_name |-> <<"H","a","s","s","a","n">>,
     location |-> <<"K","e","n","t">>, date_of_birth |-> Date(1990, 1, 1),
     gender |-> <<"m">>, profession |-> <<"N","u","r","s","e">>,
     interests |-> InterestList(<<"chess">>), created_at |-> Time(0),
     father_name |-> <<"A","l","i"," ","H","a","s","s","a","n">>, mother_name |-> <<"E","v","a"," ","H","a","s","s","a","n">>]

Backgrounds(id) == {Blank(id), Full(id)}

FirstNames ==
    { <<>>,
      <<"O","m","a","r">>,
      <<"O","m","e","r">>,
      <<"E^","v","a">> }

LastNames ==
    { <<>>,
      <<"H","a","s","s","a","n">>,
      <<"H","a","s","s","o","n">>,
      <<"S","m","i","t","h">>,
      <<"S","m","y","t","h">> }

Locations ==
    { <<>>,
      <<"K","e","n","t">>,
      <<"K","e","n","t"," ","T","o","w","n">>,
      <<"K","e","n","t"," ","C","o","u","n","t","y">>,
      <<"K","e","m","t">>,
      <<"K","e","n","t"," ","U","K">>,
      <<"Y","o","r","k"," ","U","K">>,
      <<"K","e","n","t",","," ","U","K">>,
      <<"Y","o","r","k",",","U","K">>,
      <<"O","s","l","o">> }

BirthDates ==
    { NoDate, BadDate, Date(1990, 1, 1), Date(1992, 12, 25), Date(1982, 1, 1),
      Date(1980, 5, 5), Date(1965, 1, 1), Date(1950, 7, 1), Date(2026, 3, 1) }

Genders == { <<>>, <<"m">>, <<"M">>, <<"f">> }

Professions ==
    { <<>>,
      <<"N","u","r","s","e">>,
      <<"n","u","r","s","e">>,
      <<"N","u","r","s","e","s">>,
      <<"P","i","l","o","t">>,
      <<"D","o","c","t","o","r">> }

ParentNames ==
    { <<>>,
      <<"A","l","i"," ","H","a","s","s","a","n">>,
      <<"O","m","a","r"," ","H","a","s","s","a","n">>,
      <<"E","v","a"," ","H","a","s","s","a","n">> }

InterestValues ==
    { NoInterests, InterestList(<<>>), InterestList(<<"Chess">>),
      InterestList(<<"chess", "Golf">>), InterestString(<<>>),
      InterestString(<<" chess", "golf", "yoga">>) }

\* hours: 7 days and a half, 8 days, 30 days, 91 days
SignupTimes == { NoTime, BadTime, Time(0), Time(180), Time(192), Time(720), Time(2184) }

Contexts == {"family", "friend", "community", "general"}

\* Two pairs whose weighted sum lies within 0.0005 below a level threshold:
\* 0.7996 (lines 505-511 give 0.35 + 0.225 + 0.2 * 0.373 + 0.15) and 0.5995
NearThresholdPairs ==
    { <<[Blank(<<"u","1">>) EXCEPT !.last_name = <<"H","a","s","s","a","n">>,
                                  !.location = <<"K","e","n","t">>,
                                  !.date_of_birth = Date(1982, 1, 1),
                                  !.gender = <<"m">>,
                                  !.profession = <<"P","i","l","o","t">>,
                                  !.interests = InterestList(<<"Chess">>)],
        [Blank(<<"u","2">>) EXCEPT !.last_name = <<"H","a","s","s","a","n">>,
                                  !.location = <<"K","e","n","t"," ","T","o","w","n">>,
                                  !.date_of_birth = Date(1965, 1, 1),
                                  !.profession = <<"D","o","c","t","o","r">>,
                                  !.interests = InterestList(<<"Chess">>),
                                  !.created_at = Time(720)]>>,
      <<[Blank(<<"u","1">>) EXCEPT !.last_name = <<"S","m","y","t","h">>,
                                  !.location = <<"K","e","n","t",","," ","U","K">>,
                                  !.date_of_birth = Date(1990, 1, 1),
                                  !.profession = <<"P","i","l","o","t">>,
                                  !.interests = InterestString(<<" chess", "golf", "yoga">>),
                                  !.created_at = Time(0)],
        [Blank(<<"u","2">>) EXCEPT !.last_name = <<"S","m","y","t","h">>,
                                  !.location = <<"K","e","n","t"," ","U","K">>,
                                  !.date_of_birth = Date(1990, 1, 1),
                                  !.gender = <<"f">>,
                                  !.profession = <<"D","o","c","t","o","r">>,
                                  !.created_at = Time(720)]>> }

\* The pairs of profiles the pair evaluation is checked on: two backgrounds,
\* with one group of fields ranging over all its values on both sides.
PairInputs ==
    LET B1 == Backgrounds(<<"u","1">>)
        B2 == Backgrounds(<<"u","2">>)
    IN UNION {
        { <<[a EXCEPT !.first_name = f1, !.last_name = l1],
            [b EXCEPT !.first_name = f2, !.last_name = l2]>> :
              a \in B1, b \in B2, f1 \in FirstNames, f2 \in FirstNames,
              l1 \in LastNames, l2 \in LastNames },
        { <<[a EXCEPT !.father_name = f1, !.mother_name = m1],
            [b EXCEPT !.father_name = f2, !.mother_name = m2]>> :
              a \in B1, b \in B2, f1 \in ParentNames, f2 \in ParentNames,
              m1 \in ParentNames, m2 \in ParentNames },
        { <<[a EXCEPT !.location = x], [b EXCEPT !.location = y]>> :
              a \in B1, b \in B2, x \in Locations, y \in Locations },
        { <<[a EXCEPT !.date_of_birth = x], [b EXCEPT !.date_of_birth = y]>> :
              a \in B1, b \in B2, x \in BirthDates, y \in BirthDates },
        { <<[a EXCEPT !.gender = x], [b EXCEPT !.gender = y]>> :
              a \in B1, b \in B2, x \in Genders, y \in Genders },
        { <<[a EXCEPT !.profession = x], [b EXCEPT !.profession = y]>> :
              a \in B1, b \in B2, x \in Professions, y \in Professions },
        { <<[a EXCEPT !.interests = x], [b EXCEPT !.interests = y]>> :
              a \in B1, b \in B2, x \in InterestValues, y \in InterestValues },
        { <<[a EXCEPT !.created_at = x], [b EXCEPT !.created_at = y]>> :
              a \in B1, b \in B2, x \in SignupTimes, y \in SignupTimes },
        NearThresholdPairs }

-----------------------------------------------------------------------------
(* Idle values of the variables a specification does not use *)

NoOutcome == [status |-> "none"]
NoSimilarity == [status |-> "none"]
NoRequest == [user_id |-> <<>>, max_results |-> 0, min_confidence |-> 0,
              match_context |-> "general"]
NoResponse == [kind |-> "none", matches |-> <<>>, model_version |-> ""]
NoWeights == [status |-> "none"]
NoRuns == [status |-> "none"]
NoMetrics == [status |-> "none"]
NoEnsemble == [status |-> "none"]
NoScores == [overall_score |-> 0, name_score |-> 0]
NoPrediction == [status |-> "none"]
NoTemporalResults == [status |-> "none"]
NoEnsembleRequest == [min_confidence |-> NoneInt, max_results |-> NoneInt]
NoCalibrated == [status |-> "none"]
NoFinal == [status |-> "none"]
NoFamilyResults == [status |-> "none"]
\* an empty dict
NoEntries == [k \in {} |-> 0]
NoCall == [op |-> "none", key |-> 0, hit |-> FALSE, value |-> 0]

PairIdle == user1 = Blank(<<>>) /\ user2 = Blank(<<>>) /\ match_context = "general"
            /\ outcome = NoOutcome /\ similarity_result = NoSimilarity
FindIdle == db = <<>> /\ request = NoRequest /\ response = NoResponse
            /\ matches = <<>> /\ evaluated = 0
WeightIdle == base_weights = AlgorithmWeight /\ user_profile = NoProfile
              /\ weights = NoWeights
EnsembleIdle == engine_runs = NoRuns /\ algorithm_results = NoMetrics
                /\ ensemble_matches = NoEnsemble
PredictIdle == predictor_scores = NoScores /\ predictor_result = NoPrediction
FamilyIdle == family_results = NoFamilyResults
RepeatIdle == self_weights = engine_weights /\ repeat_outcome = NoOutcome
CalibrateIdle == raw_matches = <<>> /\ ensemble_request = NoEnsembleRequest /\ calibrated_matches = NoCalibrated /\ final_matches = NoFinal
FeedbackIdle == calibration_data = <<>> /\ ingested = <<>> /\ update_calls = 0
TemporalIdle == temporal_results = NoTemporalResults
CacheIdle == in_memory_cache = NoEntries /\ cache_timestamps = NoEntries /\ clock = 0 /\ last_call = NoCall /\ recent_set = NoEntries /\ set_raised = FALSE

-----------------------------------------------------------------------------
(* SpecPair: the evaluation of one pair of profiles by each engine, as      *)
(* GET /match/similarity and every iteration of a find_matches loop do it    *)

InitPair ==
    /\ \E p \in PairInputs : user1 = p[1] /\ user2 = p[2]
    /\ match_context \in Contexts
    /\ outcome = NoOutcome
    /\ similarity_result = NoSimilarity
    /\ FindIdle
    /\ WeightIdle
    /\ EnsembleIdle
    /\ PredictIdle
    /\ FamilyIdle
    /\ RepeatIdle
    /\ CalibrateIdle
    /\ FeedbackIdle
    /\ TemporalIdle
    /\ CacheIdle

\* RealMatchingEngine.calculate_match_with_context(user1, user2, match_context)
CalculateMatch ==
    /\ outcome.status = "none"
    /\ outcome' = calculate_match_with_context(user1, user2, match_context)
    /\ UNCHANGED <<user1, user2, match_context, similarity_result>>
    /\ UNCHANGED findVars
    /\ UNCHANGED weightVars
    /\ UNCHANGED ensembleVars
    /\ UNCHANGED predictVars
    /\ UNCHANGED familyVars
    /\ UNCHANGED repeatVars
    /\ UNCHANGED calibrateVars
    /\ UNCHANGED feedbackVars
    /\ UNCHANGED temporalVars
    /\ UNCHANGED cacheVars

\* AdvancedAIMatchingEngine.calculate_comprehensive_similarity(user1, user2)
CalculateComprehensiveSimilarity ==
    /\ similarity_result.status = "none"
    /\ similarity_result' = [status |-> "ok",
                             result |-> calculate_comprehensive_similarity(user1, user2)]
    /\ UNCHANGED <<user1, user2, match_context, outcome>>
    /\ UNCHANGED findVars
    /\ UNCHANGED weightVars
    /\ UNCHANGED ensembleVars
    /\ UNCHANGED predictVars
    /\ UNCHANGED familyVars
    /\ UNCHANGED repeatVars
    /\ UNCHANGED calibrateVars
    /\ UNCHANGED feedbackVars
    /\ UNCHANGED temporalVars
    /\ UNCHANGED cacheVars

NextPair == CalculateMatch \/ CalculateComprehensiveSimilarity

SpecPair == InitPair /\ [][NextPair]_vars

-----------------------------------------------------------------------------
(* SpecPredict: one call of RealMatchingEngine.predict_relationship_type on    *)
(* two profiles, an overall score, a name score and a context                  *)

\* pairs of birth dates: the age differences 0, 3, 8, 10, 15, 17, 25, 28, 40
\* and 43 in both orders, and ages that are unknown or 0
PredictBirthDates ==
    BirthDates \X {NoDate, Date(1990, 1, 1), Date(1965, 1, 1), Date(1992, 12, 25)}

\* pairs of locations: one missing, one within the other up to case, unrelated
PredictLocations ==
    { << <<>>, <<"O","s","l","o">> >>,
      << <<"K","e","n","t">>, <<"k","e","n","t"," ","T","o","w","n">> >>,
      << <<"K","e","n","t">>, <<"O","s","l","o">> >> }

\* pairs of professions: one missing, equal up to case, different
PredictProfessions ==
    { << <<>>, <<"n","u","r","s","e">> >>,
      << <<"N","u","r","s","e">>, <<"n","u","r","s","e">> >>,
      << <<"N","u","r","s","e">>, <<"P","i","l","o","t">> >> }

PredictPairs ==
    { << [Blank(<<"u","1">>) EXCEPT !.date_of_birth = b[1], !.location = l[1],
                                   !.profession = p[1]],
         [Blank(<<"u","2">>) EXCEPT !.date_of_birth = b[2], !.location = l[2],
                                   !.profession = p[2]] >> :
        b \in PredictBirthDates, l \in PredictLocations, p \in PredictProfessions }

\* name scores on and next to the thresholds 0.2, 0.3, 0.6 and 0.7
NameScores ==
    { 0, Pct(20), Pct(21), Pct(30), Pct(31), Pct(60), Pct(61), Pct(70), Pct(71), Pct(80),
      Unit }

\* overall scores on and next to the thresholds 0.3 and 0.6, in the unit
\* 100 * Unit
OverallScores ==
    { 0, 20 * Unit, 21 * Unit, 30 * Unit, 31 * Unit, 40 * Unit, 41 * Unit,
      60 * Unit, 61 * Unit }

\* match_context is a str: the four named contexts and two other strings
PredictContexts == Contexts \cup {"work", ""}

InitPredict ==
    /\ \E p \in PredictPairs : user1 = p[1] /\ user2 = p[2]
    /\ match_context \in PredictContexts
    /\ outcome = NoOutcome
    /\ similarity_result = NoSimilarity
    /\ predictor_scores \in [overall_score : OverallScores, name_score : NameScores]
    /\ predictor_result = NoPrediction
    /\ FindIdle
    /\ WeightIdle
    /\ EnsembleIdle
    /\ FamilyIdle
    /\ RepeatIdle
    /\ CalibrateIdle
    /\ FeedbackIdle
    /\ TemporalIdle
    /\ CacheIdle

\* self.predict_relationship_type(user1, user2, overall_score, name_score,
\*                                match_context)
PredictRelationshipType ==
    /\ predictor_result.status = "none"
    /\ predictor_result' =
           [status |-> "ok",
            value |-> predict_relationship_type(user1, user2,
                          predictor_scores.overall_score,
                          predictor_scores.name_score, match_context)]
    /\ UNCHANGED predictor_scores
    /\ UNCHANGED pairVars
    /\ UNCHANGED findVars
    /\ UNCHANGED weightVars
    /\ UNCHANGED ensembleVars
    /\ UNCHANGED familyVars
    /\ UNCHANGED repeatVars
    /\ UNCHANGED calibrateVars
    /\ UNCHANGED feedbackVars
    /\ UNCHANGED temporalVars
    /\ UNCHANGED cacheVars

NextPredict == PredictRelationshipType

SpecPredict == InitPredict /\ [][NextPredict]_vars

-----------------------------------------------------------------------------
(* SpecFamily: analyze_family_relationship on a pair of profiles taken in    *)
(* both orders, as find_matches does for the two users of a pair             *)

\* father_name and mother_name: absent, three names, and one of them written
\* in another case and with punctuation
FamilyParentNames ==
    ParentNames \cup { <<"a","l","i"," ","H","a","s","s","a","n",".">> }

FamilyLastNames == { <<>>, <<"H","a","s","s","a","n">>, <<"S","m","i","t","h">> }

FamilyPairs ==
    { <<[a EXCEPT !.father_name = f1, !.mother_name = m1],
        [b EXCEPT !.father_name = f2, !.mother_name = m2, !.last_name = l2]>> :
          a \in Backgrounds(<<"u","1">>), b \in Backgrounds(<<"u","2">>),
          f1 \in FamilyParentNames, f2 \in FamilyParentNames,
          m1 \in FamilyParentNames, m2 \in FamilyParentNames,
          l2 \in FamilyLastNames }

InitFamily ==
    /\ \E p \in FamilyPairs : user1 = p[1] /\ user2 = p[2]
    /\ match_context = "general"
    /\ outcome = NoOutcome
    /\ similarity_result = NoSimilarity
    /\ family_results = NoFamilyResults
    /\ FindIdle
    /\ WeightIdle
    /\ EnsembleIdle
    /\ PredictIdle
    /\ RepeatIdle
    /\ CalibrateIdle
    /\ FeedbackIdle
    /\ TemporalIdle
    /\ CacheIdle

\* self.analyze_family_relationship(user1, user2) and
\* self.analyze_family_relationship(user2, user1)
AnalyzeFamilyRelationship ==
    /\ family_results.status = "none"
    /\ family_results' = [status |-> "ok",
                          forward |-> analyze_family_relationship(user1, user2),
                          backward |-> analyze_family_relationship(user2, user1)]
    /\ UNCHANGED pairVars
    /\ UNCHANGED findVars
    /\ UNCHANGED weightVars
    /\ UNCHANGED ensembleVars
    /\ UNCHANGED predictVars
    /\ UNCHANGED repeatVars
    /\ UNCHANGED calibrateVars
    /\ UNCHANGED feedbackVars
    /\ UNCHANGED temporalVars
    /\ UNCHANGED cacheVars

NextFamily == AnalyzeFamilyRelationship

SpecFamily == InitFamily /\ [][NextFamily]_vars

-----------------------------------------------------------------------------
(* SpecRepeat: one engine instance evaluates the same ordered pair in the    *)
(* same context twice                                                        *)

InitRepeat ==
    /\ \E p \in PairInputs : user1 = p[1] /\ user2 = p[2]
    /\ match_context \in Contexts
    /\ outcome = NoOutcome
    /\ similarity_result = NoSimilarity
    /\ self_weights = engine_weights
    /\ repeat_outcome = NoOutcome
    /\ FindIdle
    /\ WeightIdle
    /\ EnsembleIdle
    /\ PredictIdle
    /\ FamilyIdle
    /\ CalibrateIdle
    /\ FeedbackIdle
    /\ TemporalIdle
    /\ CacheIdle

\* the first engine.calculate_match_with_context(user1, user2, match_context)
CalculateMatchFirst ==
    /\ outcome.status = "none"
    /\ outcome' = engine_calculate_match_with_context(self_weights, user1, user2,
                                                       match_context)
    /\ self_weights' = weights_after_match(self_weights)
    /\ UNCHANGED <<user1, user2, match_context, similarity_result, repeat_outcome>>
    /\ UNCHANGED findVars
    /\ UNCHANGED weightVars
    /\ UNCHANGED ensembleVars
    /\ UNCHANGED predictVars
    /\ UNCHANGED familyVars
    /\ UNCHANGED calibrateVars
    /\ UNCHANGED feedbackVars
    /\ UNCHANGED temporalVars
    /\ UNCHANGED cacheVars

\* the same call again, on the engine as the first call left it
CalculateMatchAgain ==
    /\ outcome.status # "none"
    /\ repeat_outcome.status = "none"
    /\ repeat_outcome' = engine_calculate_match_with_context(self_weights, user1, user2,
                                                              match_context)
    /\ self_weights' = weights_after_match(self_weights)
    /\ UNCHANGED <<user1, user2, match_context, similarity_result, outcome>>
    /\ UNCHANGED findVars
    /\ UNCHANGED weightVars
    /\ UNCHANGED ensembleVars
    /\ UNCHANGED predictVars
    /\ UNCHANGED familyVars
    /\ UNCHANGED calibrateVars
    /\ UNCHANGED feedbackVars
    /\ UNCHANGED temporalVars
    /\ UNCHANGED cacheVars

NextRepeat == CalculateMatchFirst \/ CalculateMatchAgain

SpecRepeat == InitRepeat /\ [][NextRepeat]_vars

-----------------------------------------------------------------------------
(* SpecCalibrate: the calibration and the filter of the ensemble's           *)
(* find_matches, on a list of combined matches                               *)

\* raw ensemble scores: 0.625 is where the calibrated confidence of an
\* ensemble score crosses 0.5
RawScores == { 0, 25, 50, 62, 63, 75, 100 }

RawMatch(id, score) ==
    [user_id |-> id, ensemble_score |-> score,
     contributing_algorithms |-> <<"tensorflow", "nlp">>]

RawMatchLists ==
    {<<>>}
    \cup { <<RawMatch("x", a)>> : a \in RawScores }
    \cup { <<RawMatch("x", a), RawMatch("y", b)>> : a \in RawScores, b \in RawScores }
    \cup { <<RawMatch("x", a), RawMatch("y", b), RawMatch("z", c)>> :
               a \in RawScores, b \in RawScores, c \in RawScores }

\* MatchRequest.min_confidence (Optional, ge=0.0, le=1.0), in hundredths
MinConfidenceOptions ==
    { NoneInt, SomeInt(0), SomeInt(30), SomeInt(50), SomeInt(60), SomeInt(100) }

\* MatchRequest.max_results (Optional, ge=1, le=1000)
MaxResultsOptions == { NoneInt, SomeInt(1), SomeInt(2), SomeInt(50) }

InitCalibrate ==
    /\ raw_matches \in RawMatchLists
    /\ ensemble_request \in [min_confidence : MinConfidenceOptions,
                             max_results : MaxResultsOptions]
    /\ calibrated_matches = NoCalibrated
    /\ final_matches = NoFinal
    /\ PairIdle
    /\ FindIdle
    /\ WeightIdle
    /\ EnsembleIdle
    /\ PredictIdle
    /\ FamilyIdle
    /\ RepeatIdle
    /\ FeedbackIdle
    /\ TemporalIdle
    /\ CacheIdle

\* calibrated_matches = await self._calibrate_matches(ensemble_matches, user_profile)
CalibrateMatches ==
    /\ calibrated_matches.status = "none"
    /\ calibrated_matches' = [status |-> "ok", value |-> calibrate_matches(raw_matches)]
    /\ UNCHANGED <<raw_matches, ensemble_request, final_matches>>
    /\ UNCHANGED pairVars
    /\ UNCHANGED findVars
    /\ UNCHANGED weightVars
    /\ UNCHANGED ensembleVars
    /\ UNCHANGED predictVars
    /\ UNCHANGED familyVars
    /\ UNCHANGED repeatVars
    /\ UNCHANGED feedbackVars
    /\ UNCHANGED temporalVars
    /\ UNCHANGED cacheVars

\* final_matches = await self._filter_and_rank_matches(calibrated_matches, request)
FilterAndRankMatches ==
    /\ calibrated_matches.status = "ok"
    /\ final_matches.status = "none"
    /\ final_matches' =
           [status |-> "ok",
            value |-> filter_and_rank_matches(calibrated_matches.value, ensemble_request)]
    /\ UNCHANGED <<raw_matches, ensemble_request, calibrated_matches>>
    /\ UNCHANGED pairVars
    /\ UNCHANGED findVars
    /\ UNCHANGED weightVars
    /\ UNCHANGED ensembleVars
    /\ UNCHANGED predictVars
    /\ UNCHANGED familyVars
    /\ UNCHANGED repeatVars
    /\ UNCHANGED feedbackVars
    /\ UNCHANGED temporalVars
    /\ UNCHANGED cacheVars

NextCalibrate == CalibrateMatches \/ FilterAndRankMatches

SpecCalibrate == InitCalibrate /\ [][NextCalibrate]_vars

-----------------------------------------------------------------------------
(* SpecFeedback: update_calibration calls on a calibrator that has already   *)
(* taken in some feedback                                                    *)

MaxUpdates == 3

\* how many pairs the calibrator holds at the start: none, and up to the limit
InitialSizes == { 0, calibration_limit - 2, calibration_limit - 1, calibration_limit }

\* the pairs of earlier calls: predictions in hundredths, outcomes alternating
EarlierFeedback(n) == [i \in 1..n |-> <<i % 100, i % 2 = 0>>]

PredictionLists == { <<>>, <<20>>, <<20, 90>>, <<90, 20, 55>> }

OutcomeLists == { <<>>, <<TRUE>>, <<TRUE, FALSE>>, <<FALSE, TRUE, TRUE>> }

InitFeedback ==
    /\ \E n \in InitialSizes : calibration_data = EarlierFeedback(n)
    /\ ingested = calibration_data
    /\ update_calls = 0
    /\ PairIdle
    /\ FindIdle
    /\ WeightIdle
    /\ EnsembleIdle
    /\ PredictIdle
    /\ FamilyIdle
    /\ RepeatIdle
    /\ CalibrateIdle
    /\ TemporalIdle
    /\ CacheIdle

\* calibrator.update_calibration(predictions, actual_outcomes)
UpdateCalibration ==
    /\ update_calls < MaxUpdates
    /\ \E predictions \in PredictionLists, actual_outcomes \in OutcomeLists :
           /\ calibration_data' =
                  update_calibration(calibration_data, predictions, actual_outcomes)
           /\ ingested' =
                  ingested \o [i \in 1..(IF Len(predictions) < Len(actual_outcomes)
                                         THEN Len(predictions) ELSE Len(actual_outcomes)) |->
                                  <<predictions[i], actual_outcomes[i]>>]
    /\ update_calls' = update_calls + 1
    /\ UNCHANGED pairVars
    /\ UNCHANGED findVars
    /\ UNCHANGED weightVars
    /\ UNCHANGED ensembleVars
    /\ UNCHANGED predictVars
    /\ UNCHANGED familyVars
    /\ UNCHANGED repeatVars
    /\ UNCHANGED calibrateVars
    /\ UNCHANGED temporalVars
    /\ UNCHANGED cacheVars

NextFeedback == UpdateCalibration

SpecFeedback == InitFeedback /\ [][NextFeedback]_vars

-----------------------------------------------------------------------------
(* SpecTemporal: calculate_temporal_proximity on two sign-up times taken in  *)
(* both orders                                                               *)

\* hours after a first sign-up: the thresholds of 7, 30 and 90 days, an hour
\* and half a day beyond each
TemporalTimes ==
    SignupTimes
    \cup { Time(168), Time(169), Time(732), Time(744), Time(2160), Time(2172) }

InitTemporal ==
    /\ \E x \in TemporalTimes, y \in TemporalTimes :
           /\ user1 = [Blank(<<"u","1">>) EXCEPT !.created_at = x]
           /\ user2 = [Blank(<<"u","2">>) EXCEPT !.created_at = y]
    /\ match_context = "general"
    /\ outcome = NoOutcome
    /\ similarity_result = NoSimilarity
    /\ temporal_results = NoTemporalResults
    /\ FindIdle
    /\ WeightIdle
    /\ EnsembleIdle
    /\ PredictIdle
    /\ FamilyIdle
    /\ RepeatIdle
    /\ CalibrateIdle
    /\ FeedbackIdle
    /\ CacheIdle

\* self.calculate_temporal_proximity(user1, user2) and
\* self.calculate_temporal_proximity(user2, user1)
CalculateTemporalProximity ==
    /\ temporal_results.status = "none"
    /\ temporal_results' = [status |-> "ok",
                            forward |-> calculate_temporal_proximity(user1, user2),
                            backward |-> calculate_temporal_proximity(user2, user1)]
    /\ UNCHANGED pairVars
    /\ UNCHANGED findVars
    /\ UNCHANGED weightVars
    /\ UNCHANGED ensembleVars
    /\ UNCHANGED predictVars
    /\ UNCHANGED familyVars
    /\ UNCHANGED repeatVars
    /\ UNCHANGED calibrateVars
    /\ UNCHANGED feedbackVars
    /\ UNCHANGED cacheVars

NextTemporal == CalculateTemporalProximity

SpecTemporal == InitTemporal /\ [][NextTemporal]_vars

-----------------------------------------------------------------------------
(* SpecFind: one POST /match/find, answered by the handler of                *)
(* production_main.py (real engine) or by the handler of                     *)
(* production_matching_service.py (advanced engine)                          *)

\* the largest users collection
MaxPool == 3

\* The users a collection is drawn from.  b and c have the profile of a; d is
\* a stranger with the first name of a; e has a created_at that
\* datetime.fromisoformat rejects.
Catalogue ==
    { Full(<<"a">>), Full(<<"b">>), Full(<<"c">>),
      [Full(<<"d">>) EXCEPT !.last_name = <<"S","m","i","t","h">>,
                            !.location = <<"Y","o","r","k"," ","U","K">>,
                            !.date_of_birth = Date(1980, 5, 5),
                            !.profession = <<"D","o","c","t","o","r">>,
                            !.created_at = Time(720),
                            !.father_name = <<>>, !.mother_name = <<>>],
      [Blank(<<"e">>) EXCEPT !.first_name = <<"E^","v","a">>,
                             !.last_name = <<"S","m","y","t","h">>,
                             !.created_at = BadTime] }

\* the collections: up to MaxPool users with distinct ids, in any order
Pools ==
    UNION { {pool \in [1..n -> Catalogue] :
                 \A i, j \in 1..n : pool[i]._id = pool[j]._id => i = j} :
            n \in 0..MaxPool }

\* "z" is the id of no user
TargetIds == { <<"a">>, <<"d">>, <<"z">> }
MaxResultsValues == { 0 - 1, 0, 1, 2 }
\* thousandths
MinConfidenceValues == { 0 - 100, 0, 473, 500, 1500 }

Requests ==
    [user_id : TargetIds, max_results : MaxResultsValues,
     min_confidence : MinConfidenceValues, match_context : {"family", "general"}]

\* models/matching_models.py, MatchRequest: max_results ge=1 le=1000,
\* min_confidence ge=0.0 le=1.0, user_id not blank
ValidMatchRequest(req) ==
    /\ Strip(req.user_id) # <<>>
    /\ req.max_results >= 1 /\ req.max_results <= 1000
    /\ req.min_confidence >= 0 /\ req.min_confidence <= 1000

InitFind ==
    /\ db \in Pools
    /\ request \in Requests
    /\ response = NoResponse
    /\ matches = <<>>
    /\ evaluated = 0
    /\ PairIdle
    /\ WeightIdle
    /\ EnsembleIdle
    /\ PredictIdle
    /\ FamilyIdle
    /\ RepeatIdle
    /\ CalibrateIdle
    /\ FeedbackIdle
    /\ TemporalIdle
    /\ CacheIdle

\* what the handler of production_main.py answers once find_matches is over:
\* an exception becomes HTTP 500
MainAnswers(found) ==
    /\ response' = IF found.raised
                   THEN [kind |-> "error", matches |-> <<>>, model_version |-> ""]
                   ELSE [kind |-> "matches", matches |-> found.returned,
                         model_version |-> "1.0.0-production"]
    /\ matches' = found.matches
    /\ evaluated' = found.evaluated

\* POST /match/find of production_main.py.  FastAPI validates the body against
\* MatchRequest before it calls the handler (HTTP 422).
FindMatchesMain ==
    /\ response = NoResponse
    /\ IF ~ValidMatchRequest(request)
       THEN /\ response' = [kind |-> "rejected", matches |-> <<>>, model_version |-> ""]
            /\ UNCHANGED <<matches, evaluated>>
       ELSE IF db = <<>>
       THEN /\ response' = [kind |-> "matches", matches |-> <<>>,
                             model_version |-> "1.0.0-production"]
            /\ UNCHANGED <<matches, evaluated>>
       ELSE MainAnswers(find_matches(request.user_id, db, request.max_results,
                                     request.min_confidence, request.match_context))
    /\ UNCHANGED <<db, request>>
    /\ UNCHANGED pairVars
    /\ UNCHANGED weightVars
    /\ UNCHANGED ensembleVars
    /\ UNCHANGED predictVars
    /\ UNCHANGED familyVars
    /\ UNCHANGED repeatVars
    /\ UNCHANGED calibrateVars
    /\ UNCHANGED feedbackVars
    /\ UNCHANGED temporalVars
    /\ UNCHANGED cacheVars

\* what the handler of production_matching_service.py answers: it filters and
\* truncates the list of the engine once more
ServiceAnswers(found) ==
    /\ response' =
           [kind |-> "matches",
            matches |-> Slice(SelectSeq(found.returned,
                                        LAMBDA m : meets_min_confidence(m, request.min_confidence)),
                              request.max_results),
            model_version |-> "2.0.0-production"]
    /\ matches' = found.matches
    /\ evaluated' = found.evaluated

\* POST /match/find of production_matching_service.py.  Its MatchRequest puts
\* no constraint on max_results and min_confidence.
FindMatchesService ==
    /\ response = NoResponse
    /\ ServiceAnswers(advanced_find_matches(request.user_id, db, request))
    /\ UNCHANGED <<db, request>>
    /\ UNCHANGED pairVars
    /\ UNCHANGED weightVars
    /\ UNCHANGED ensembleVars
    /\ UNCHANGED predictVars
    /\ UNCHANGED familyVars
    /\ UNCHANGED repeatVars
    /\ UNCHANGED calibrateVars
    /\ UNCHANGED feedbackVars
    /\ UNCHANGED temporalVars
    /\ UNCHANGED cacheVars

NextFind == FindMatchesMain \/ FindMatchesService

SpecFind == InitFind /\ [][NextFind]_vars

-----------------------------------------------------------------------------
(* SpecWeights: one call of AdaptiveWeightingSystem.calculate_weights *)

WeightProfiles ==
    [first_name : { <<>>, <<"A">>, <<"A","l">>, <<"A","1">> },
     last_name : { <<>>, <<"H","a","s","s","a","n">>, <<"O"," ","N","e","i","l">> },
     location : { <<>>, <<"R","i","o">>, <<"K","e","n","t">>,
                  <<"K","e","n","t",","," ","U","K">> },
     birth_date : BOOLEAN, profession : BOOLEAN, cultural_background : BOOLEAN,
     family_origin : BOOLEAN, connections : {0, 1}, dna_data : BOOLEAN,
     genetic_markers : BOOLEAN]

InitWeights ==
    /\ base_weights = AlgorithmWeight
    /\ user_profile \in WeightProfiles
    /\ weights = NoWeights
    /\ PairIdle
    /\ FindIdle
    /\ EnsembleIdle
    /\ PredictIdle
    /\ FamilyIdle
    /\ RepeatIdle
    /\ CalibrateIdle
    /\ FeedbackIdle
    /\ TemporalIdle
    /\ CacheIdle

\* weights = self.weighting_system.calculate_weights(user_profile)
CalculateWeights ==
    /\ weights.status = "none"
    /\ weights' = [status |-> "ok", value |-> calculate_weights(base_weights, user_profile)]
    /\ UNCHANGED <<base_weights, user_profile>>
    /\ UNCHANGED pairVars
    /\ UNCHANGED findVars
    /\ UNCHANGED ensembleVars
    /\ UNCHANGED predictVars
    /\ UNCHANGED familyVars
    /\ UNCHANGED repeatVars
    /\ UNCHANGED calibrateVars
    /\ UNCHANGED feedbackVars
    /\ UNCHANGED temporalVars
    /\ UNCHANGED cacheVars

NextWeights == CalculateWeights

SpecWeights == InitWeights /\ [][NextWeights]_vars

-----------------------------------------------------------------------------
(* SpecEnsemble: one EnsembleMatchingEngine.find_matches up to the combined    *)
(* list: the adaptive weights, the parallel run of the four engines, and the   *)
(* combination, which calls every successful engine a second time              *)

Match(user_id, confidence_score) == [user_id |-> user_id, confidence_score |-> confidence_score]

Raises == [raised |-> TRUE, matches |-> <<>>]
Returns(list) == [raised |-> FALSE, matches |-> list]

\* what a call of an engine's find_matches can do
EngineReturns ==
    { Raises,
      Returns(<<>>),
      Returns(<<Match("x", 100)>>),
      Returns(<<Match("x", 40), Match("y", 85)>>),
      Returns(<<Match("y", 0), Match("y", 120)>>) }

\* the first call (by _run_parallel_matching) and the second call (by
\* _combine_algorithm_results) of each engine
EngineRuns ==
    [Range(algorithm_names) -> [first : {Raises, Returns(<<>>)}, second : EngineReturns]]

\* the profiles _get_user_profile gives: complete without connections and
\* genetic data, empty, and complete with both
EnsembleProfiles ==
    { [NoProfile EXCEPT !.first_name = <<"A","l">>,
                        !.last_name = <<"H","a","s","s","a","n">>,
                        !.location = <<"K","e","n","t",","," ","U","K">>,
                        !.birth_date = TRUE, !.profession = TRUE,
                        !.cultural_background = TRUE, !.family_origin = TRUE],
      NoProfile,
      [NoProfile EXCEPT !.first_name = <<"A","l">>,
                        !.last_name = <<"H","a","s","s","a","n">>,
                        !.location = <<"K","e","n","t">>,
                        !.birth_date = TRUE, !.profession = TRUE,
                        !.connections = 1, !.dna_data = TRUE] }

InitEnsemble ==
    /\ base_weights = AlgorithmWeight
    /\ user_profile \in EnsembleProfiles
    /\ weights = NoWeights
    /\ engine_runs \in EngineRuns
    /\ algorithm_results = NoMetrics
    /\ ensemble_matches = NoEnsemble
    /\ PairIdle
    /\ FindIdle
    /\ PredictIdle
    /\ FamilyIdle
    /\ RepeatIdle
    /\ CalibrateIdle
    /\ FeedbackIdle
    /\ TemporalIdle
    /\ CacheIdle

\* algorithm_results = await self._run_parallel_matching(user_profile, request)
RunParallelMatching ==
    /\ weights.status = "ok"
    /\ engine_runs # NoRuns
    /\ algorithm_results.status = "none"
    /\ algorithm_results' = [status |-> "ok", value |-> run_parallel_matching(engine_runs)]
    /\ UNCHANGED <<engine_runs, ensemble_matches>>
    /\ UNCHANGED pairVars
    /\ UNCHANGED findVars
    /\ UNCHANGED weightVars
    /\ UNCHANGED predictVars
    /\ UNCHANGED familyVars
    /\ UNCHANGED repeatVars
    /\ UNCHANGED calibrateVars
    /\ UNCHANGED feedbackVars
    /\ UNCHANGED temporalVars
    /\ UNCHANGED cacheVars

\* ensemble_matches = await self._combine_algorithm_results(algorithm_results,
\*                                                         weights, user_profile)
CombineAlgorithmResults ==
    /\ algorithm_results.status = "ok"
    /\ ensemble_matches.status = "none"
    /\ ensemble_matches' =
           [status |-> "ok",
            value |-> combine_algorithm_results(algorithm_results.value, weights.value,
                                                engine_runs)]
    /\ UNCHANGED <<engine_runs, algorithm_results>>
    /\ UNCHANGED pairVars
    /\ UNCHANGED findVars
    /\ UNCHANGED weightVars
    /\ UNCHANGED predictVars
    /\ UNCHANGED familyVars
    /\ UNCHANGED repeatVars
    /\ UNCHANGED calibrateVars
    /\ UNCHANGED feedbackVars
    /\ UNCHANGED temporalVars
    /\ UNCHANGED cacheVars

NextEnsemble == CalculateWeights \/ RunParallelMatching \/ CombineAlgorithmResults

SpecEnsemble == InitEnsemble /\ [][NextEnsemble]_vars

-----------------------------------------------------------------------------
(* SpecCache: CacheManager of utils/cache.py in its in-memory mode           *)
(* (is_initialized, not use_redis): set, get and _cleanup_expired called at  *)
(* non-decreasing times.                                                     *)

\* len(self.in_memory_cache) > 1000 makes set call _cleanup_expired
cleanup_threshold == 1000

\* the last datetime there is (datetime.max), in seconds of the model's clock;
\* datetime.now() + timedelta(seconds=ttl) raises OverflowError beyond it
datetime_max == 1000000

\* the clock stops here
MaxClock == 3

\* d[key] = value
store(d, key, value) == [k \in DOMAIN d \cup {key} |-> IF k = key THEN value ELSE d[k]]

\* d.pop(key, None) for every key of a set
without(d, keys) == [k \in DOMAIN d \ keys |-> d[k]]

\* _cleanup_expired: the keys of cache_timestamps whose time is before now
\* leave both dicts
cleanup_expired(cache, timestamps, now) ==
    LET expired_keys == {k \in DOMAIN timestamps : timestamps[k] < now}
    IN [cache |-> without(cache, expired_keys),
        timestamps |-> without(timestamps, expired_keys)]

\* set, in-memory branch: the value is stored first; the expiry time is
\* computed next and may raise, which the except clause turns into False
cache_set(cache, timestamps, now, key, value, ttl) ==
    LET stored == store(cache, key, value)
    IN IF now + ttl > datetime_max
       THEN [cache |-> stored, timestamps |-> timestamps, result |-> FALSE]
       ELSE LET stamped == store(timestamps, key, now + ttl)
            IN IF Cardinality(DOMAIN stored) > cleanup_threshold
               THEN [cache |-> cleanup_expired(stored, stamped, now).cache,
                     timestamps |-> cleanup_expired(stored, stamped, now).timestamps,
                     result |-> TRUE]
               ELSE [cache |-> stored, timestamps |-> stamped, result |-> TRUE]

\* get, in-memory branch: a key with a timestamp after now answers its
\* value; any other key that is in the cache is deleted from both dicts
cache_get(cache, timestamps, now, key) ==
    IF key \in DOMAIN cache
    THEN IF key \in DOMAIN timestamps /\ now < timestamps[key]
         THEN [cache |-> cache, timestamps |-> timestamps, hit |-> TRUE,
               value |-> cache[key]]
         ELSE [cache |-> without(cache, {key}), timestamps |-> without(timestamps, {key}),
               hit |-> FALSE, value |-> 0]
    ELSE [cache |-> cache, timestamps |-> timestamps, hit |-> FALSE, value |-> 0]

\* the keys of earlier entries, all set at time 0 with ttl 1
EarlierKeys(n) == 1..n

\* the keys, values and ttls of the calls; the last ttl is beyond datetime.max
CacheKeys == {cleanup_threshold + 1}
CacheValues == {7, 8}
Ttls == {0, 2, datetime_max + 1}

\* the keys get is called with: the new key and one of the earlier ones
ReadKeys == CacheKeys \cup {1}

InitCache ==
    /\ \E n \in {0, cleanup_threshold} :
           /\ in_memory_cache = [k \in EarlierKeys(n) |-> 0]
           /\ cache_timestamps = [k \in EarlierKeys(n) |-> 1]
           /\ recent_set = [k \in EarlierKeys(n) \cap ReadKeys |->
                                [at |-> 0, ttl |-> 1, value |-> 0]]
    /\ clock = 0
    /\ last_call = NoCall
    /\ set_raised = FALSE
    /\ PairIdle
    /\ FindIdle
    /\ WeightIdle
    /\ EnsembleIdle
    /\ PredictIdle
    /\ FamilyIdle
    /\ RepeatIdle
    /\ CalibrateIdle
    /\ FeedbackIdle
    /\ TemporalIdle

\* await cache.set(key, value, ttl)
Set ==
    \E key \in CacheKeys, value \in CacheValues, ttl \in Ttls :
        LET done == cache_set(in_memory_cache, cache_timestamps, clock, key, value, ttl)
        IN /\ in_memory_cache' = done.cache
           /\ cache_timestamps' = done.timestamps
           /\ last_call' = [op |-> "set", key |-> key, hit |-> done.result,
                            value |-> value]
           /\ recent_set' = store(recent_set, key,
                                  [at |-> clock, ttl |-> ttl, value |-> value])
           /\ set_raised' = (set_raised \/ ~done.result)
           /\ UNCHANGED clock
           /\ UNCHANGED pairVars
           /\ UNCHANGED findVars
           /\ UNCHANGED weightVars
           /\ UNCHANGED ensembleVars
           /\ UNCHANGED predictVars
           /\ UNCHANGED familyVars
           /\ UNCHANGED repeatVars
           /\ UNCHANGED calibrateVars
           /\ UNCHANGED feedbackVars
           /\ UNCHANGED temporalVars

\* await cache.get(key)
Get ==
    \E key \in ReadKeys :
        LET done == cache_get(in_memory_cache, cache_timestamps, clock, key)
        IN /\ in_memory_cache' = done.cache
           /\ cache_timestamps' = done.timestamps
           /\ last_call' = [op |-> "get", key |-> key, hit |-> done.hit,
                            value |-> done.value]
           /\ UNCHANGED <<clock, recent_set, set_raised>>
           /\ UNCHANGED pairVars
           /\ UNCHANGED findVars
           /\ UNCHANGED weightVars
           /\ UNCHANGED ensembleVars
           /\ UNCHANGED predictVars
           /\ UNCHANGED familyVars
           /\ UNCHANGED repeatVars
           /\ UNCHANGED calibrateVars
           /\ UNCHANGED feedbackVars
           /\ UNCHANGED temporalVars

\* await cache._cleanup_expired()
CleanupExpired ==
    /\ in_memory_cache' = cleanup_expired(in_memory_cache, cache_timestamps, clock).cache
    /\ cache_timestamps' = cleanup_expired(in_memory_cache, cache_timestamps, clock).timestamps
    /\ last_call' = [op |-> "cleanup", key |-> 0, hit |-> FALSE, value |-> 0]
    /\ UNCHANGED <<clock, recent_set, set_raised>>
    /\ UNCHANGED pairVars
    /\ UNCHANGED findVars
    /\ UNCHANGED weightVars
    /\ UNCHANGED ensembleVars
    /\ UNCHANGED predictVars
    /\ UNCHANGED familyVars
    /\ UNCHANGED repeatVars
    /\ UNCHANGED calibrateVars
    /\ UNCHANGED feedbackVars
    /\ UNCHANGED temporalVars

\* time passes: no call has been made at the new time
Tick ==
    /\ clock < MaxClock
    /\ clock' = clock + 1
    /\ last_call' = NoCall
    /\ UNCHANGED <<in_memory_cache, cache_timestamps, recent_set, set_raised>>
    /\ UNCHANGED pairVars
    /\ UNCHANGED findVars
    /\ UNCHANGED weightVars
    /\ UNCHANGED ensembleVars
    /\ UNCHANGED predictVars
    /\ UNCHANGED familyVars
    /\ UNCHANGED repeatVars
    /\ UNCHANGED calibrateVars
    /\ UNCHANGED feedbackVars
    /\ UNCHANGED temporalVars

NextCache == Set \/ Get \/ CleanupExpired \/ Tick

SpecCache == InitCache /\ [][NextCache]_vars

-----------------------------------------------------------------------------
(* Claims on the pair evaluation (SpecPair) *)

InUnitInterval(thousandths) == thousandths >= 0 /\ thousandths <= 1000

\* C1: whatever fields the two profiles have and whatever the context, the
\* five sub-scores, the confidence score and the relationship confidence that
\* calculate_match_with_context returns all lie in [0, 1].
C1_ScoresInUnitInterval ==
    outcome.status = "ok" =>
        /\ InUnitInterval(outcome.algorithm_scores.name_similarity)
        /\ InUnitInterval(outcome.algorithm_scores.location_proximity)
        /\ InUnitInterval(outcome.algorithm_scores.demographic_match)
        /\ InUnitInterval(outcome.algorithm_scores.interests_overlap)
        /\ InUnitInterval(outcome.algorithm_scores.temporal_proximity)
        /\ InUnitInterval(outcome.confidence_score)
        /\ InUnitInterval(outcome.relationship_confidence)

\* C1 witness: a pair whose name evidence adds up to more than 1.0 (same last
\* name, same first name, cultural pattern) has been evaluated.
C1_Witness ==
    /\ outcome.status = "ok"
    /\ name_similarity_sum(user1, user2).score > Unit
    /\ outcome.algorithm_scores.name_similarity = 1000
    /\ outcome.confidence_score > 900

\* the inputs a sub-scorer requires are missing on profile u
NamesMissing(u) == u.first_name = <<>> /\ u.last_name = <<>>
DemographicsMissing(u) ==
    u.date_of_birth.k = "none" /\ u.gender = <<>> /\ u.profession = <<>>

\* C7: a sub-scorer whose required input fields are missing on either
\* profile returns exactly 0.0 and no reason; the demographic scorer returns
\* 0.0 when birth date, gender and profession are all absent, the interests
\* scorer when either interest set is empty.
C7_MissingInputsScoreZero ==
    outcome.status = "ok" =>
        LET none == [score |-> 0, reasons |-> <<>>]
        IN /\ (NamesMissing(user1) \/ NamesMissing(user2))
                => calculate_name_similarity(user1, user2) = none
           /\ (user1.location = <<>> \/ user2.location = <<>>)
                => calculate_location_proximity(user1, user2) = none
           /\ (DemographicsMissing(user1) \/ DemographicsMissing(user2))
                => /\ calculate_demographic_match(user1, user2) = none
                   /\ outcome.algorithm_scores.demographic_match = 0
           /\ (extract_interests(user1) = {} \/ extract_interests(user2) = {})
                => calculate_interests_overlap(user1, user2) = none
           /\ (user1.created_at.k = "none" \/ user2.created_at.k = "none")
                => /\ calculate_temporal_proximity(user1, user2).score = 0
                   /\ calculate_temporal_proximity(user1, user2).reasons = <<>>

\* C8: every match outcome has a non-empty reason list; when the sub-scorers
\* give no reason it is the single placeholder "Profile compatibility".
C8_ReasonsNeverEmpty ==
    outcome.status = "ok" =>
        /\ outcome.match_reasons # <<>>
        /\ (name_similarity_sum(user1, user2).reasons = <<>>
            /\ calculate_location_proximity(user1, user2).reasons = <<>>
            /\ calculate_demographic_match(user1, user2).reasons = <<>>
            /\ calculate_interests_overlap(user1, user2).reasons = <<>>
            /\ calculate_temporal_proximity(user1, user2).reasons = <<>>)
           => outcome.match_reasons = <<Reason("Profile compatibility", <<>>)>>

IsPrefix(s, t) == Len(s) <= Len(t) /\ s = SubSeq(t, 1, Len(s))

NoDuplicates(s) == \A i, j \in 1..Len(s) : s[i] = s[j] => i = j

\* the reasons of the real engine's sub-scorers, in the order of their calls
scorer_reasons(u1, u2) ==
    calculate_name_similarity(u1, u2).reasons
    \o calculate_location_proximity(u1, u2).reasons
    \o calculate_demographic_match(u1, u2).reasons
    \o calculate_interests_overlap(u1, u2).reasons
    \o calculate_temporal_proximity(u1, u2).reasons

\* C9 (real engine): the reason list calculate_match_with_context returns is a
\* prefix of the sub-scorers' reasons in the order name, location, demographic,
\* interests, temporal, holds no string twice and has at most 5 entries.
C9_RealReasonsCapped ==
    outcome.status = "ok" =>
        /\ IsPrefix(outcome.match_reasons, scorer_reasons(user1, user2))
        /\ NoDuplicates(outcome.match_reasons)
        /\ Len(outcome.match_reasons) <= 5

\* C9: the combined reason list of every match outcome, of either engine, holds
\* no string twice and has at most 5 entries, and the real engine's list is a
\* prefix of its sub-scorers' reasons in declaration order.
C9_ReasonsCapped ==
    /\ C9_RealReasonsCapped
    /\ similarity_result.status = "ok" =>
           /\ NoDuplicates(similarity_result.result.reasons)
           /\ Len(similarity_result.result.reasons) <= 5

\* C17: in every outcome of calculate_match_with_context the confidence level
\* agrees with the confidence score reported beside it: high iff the score is
\* >= 0.8, medium iff it is in [0.6, 0.8), low iff it is below 0.6.
C17_LevelAgreesWithScore ==
    outcome.status = "ok" =>
        outcome.confidence_level =
            (IF outcome.confidence_score >= 800 THEN "high"
             ELSE IF outcome.confidence_score >= 600 THEN "medium"
             ELSE "low")

\* the birth date is absent or is a text fromisoformat rejects
BirthDateMissing(u) == u.date_of_birth.k \in {"none", "bad"}

\* both created_at present and one of them unparsable: the temporal scorer raises
SignupUnparsable ==
    /\ user1.created_at.k # "none"
    /\ user2.created_at.k # "none"
    /\ "bad" \in {user1.created_at.k, user2.created_at.k}

\* the demographic score without an age part: 0.3 * gender + 0.2 * profession
DemographicWithoutAge ==
    (calculate_gender_compatibility(user1, user2) * 3) \div 10
    + (calculate_professional_match(user1, user2) * 2) \div 10

StatedStopWords ==
    LocationStopWords
    \cup { <<"c","o","u","n","t","y">>, <<"s","t","a","t","e">>,
           <<"p","r","o","v","i","n","c","e">> }

\* lowercase, the words of a set removed as whole words, whitespace collapsed
NormalizedWithout(location, words) ==
    JoinSpace(Split(RemoveWordsFrom(Strip(Lower(location)), 1, words)))

LocationsPresent == user1.location # <<>> /\ user2.location # <<>>

\* C24 (five words): two locations that differ only by the words city, town,
\* village, area, district score as an exact location match (0.9).
C24_FiveWordsStripped ==
    (outcome.status = "ok" /\ LocationsPresent
     /\ NormalizedWithout(user1.location, LocationStopWords)
            = NormalizedWithout(user2.location, LocationStopWords))
        => outcome.algorithm_scores.location_proximity = 900

\* C24: two locations that differ only by whole-word occurrences of city,
\* town, village, area, district, county, state, province (and case and
\* spacing) normalize to the same string and score as an exact location
\* match (0.9).
C24_EightWordsStripped ==
    (outcome.status = "ok" /\ LocationsPresent
     /\ NormalizedWithout(user1.location, StatedStopWords)
            = NormalizedWithout(user2.location, StatedStopWords))
        => outcome.algorithm_scores.location_proximity = 900

\* whole years from a parsable birth date to today
YearsSince(dob) ==
    IF Today.m < dob.m \/ (Today.m = dob.m /\ Today.d < dob.d)
    THEN Today.y - dob.y - 1
    ELSE Today.y - dob.y

BothBirthDatesParsable ==
    /\ user1.date_of_birth.k = "date"
    /\ user2.date_of_birth.k = "date"

AgesApart ==
    LET a == YearsSince(user1.date_of_birth)
        b == YearsSince(user2.date_of_birth)
    IN IF a >= b THEN a - b ELSE b - a

\* <= 2 gives 1.0, <= 5 gives 0.8, <= 10 gives 0.6, <= 20 gives 0.3, else 0.1
StatedAgeBand ==
    IF AgesApart <= 2 THEN Pct(100)
    ELSE IF AgesApart <= 5 THEN Pct(80)
    ELSE IF AgesApart <= 10 THEN Pct(60)
    ELSE IF AgesApart <= 20 THEN Pct(30)
    ELSE Pct(10)

\* the demographic score with the stated age band as its age part
DemographicWithStatedAge ==
    LET score == (StatedAgeBand * 5) \div 10 + DemographicWithoutAge
    IN IF score < Unit THEN score ELSE Unit

\* C27 (ages of one year and more): when both birth dates parse to an age of
\* at least 1, the age part of the demographic score is the stated band of
\* the age difference.
C27_AgeBandFromOneYear ==
    ( /\ outcome.status = "ok"
      /\ BothBirthDatesParsable
      /\ YearsSince(user1.date_of_birth) >= 1
      /\ YearsSince(user2.date_of_birth) >= 1 ) =>
        outcome.algorithm_scores.demographic_match
            = (10 * DemographicWithStatedAge + 18018) \div 36036

\* C27: for two profiles whose birth dates are both present and parsable, an
\* age of 0 included, the age-proximity score is the band of |age1 - age2|
\* (<= 2 gives 1.0, <= 5 gives 0.8, <= 10 gives 0.6, <= 20 gives 0.3, else
\* 0.1) and never 0.0, so the demographic score carries half of that band.
C27_AgeBandAlways ==
    (outcome.status = "ok" /\ BothBirthDatesParsable) =>
        /\ calculate_age_proximity(user1, user2) = StatedAgeBand
        /\ outcome.algorithm_scores.demographic_match
               = (10 * DemographicWithStatedAge + 18018) \div 36036

-----------------------------------------------------------------------------
(* Claims on the relationship predictor (SpecPredict) *)

\* the name score the predictor is given
NameScore == predictor_scores.name_score

\* the overall score the predictor is given, in the unit 100 * Unit
OverallScore == predictor_scores.overall_score

\* both ages are known (and not 0)
AgesKnown == Truthy(extract_age(user1)) /\ Truthy(extract_age(user2))

\* the distance between the two ages
AgeDiff ==
    IF extract_age(user1).v >= extract_age(user2).v
    THEN extract_age(user1).v - extract_age(user2).v
    ELSE extract_age(user2).v - extract_age(user1).v

FirstOlder == extract_age(user1).v > extract_age(user2).v

\* the text a occurs in the text b
Within(a, b) == \E i \in 1..(Len(b) - Len(a) + 1) : SubSeq(b, i, i + Len(a) - 1) = a

\* the text with every upper-case letter replaced by its lower-case letter
Folded(s) == [i \in 1..Len(s) |-> LowerChar(s[i])]

\* both locations are given and one contains the other, case-insensitively
SameLocation ==
    /\ user1.location # <<>> /\ user2.location # <<>>
    /\ \/ Within(Folded(user1.location), Folded(user2.location))
       \/ Within(Folded(user2.location), Folded(user1.location))

\* the age gap the predictor works with: 0 when an age is unknown
AgeGap == IF AgesKnown THEN AgeDiff ELSE 0

\* both professions are given and equal, case-insensitively
SameProfession ==
    /\ user1.profession # <<>> /\ user2.profession # <<>>
    /\ Folded(user1.profession) = Folded(user2.profession)

\* the label and the confidence (in hundredths) the predictor returned
Predicted ==
    <<predictor_result.value.predicted_relationship,
      predictor_result.value.relationship_confidence>>

\* the match type and the confidence (in hundredths) the predictor returned
PredictedType ==
    <<predictor_result.value.match_type, predictor_result.value.relationship_confidence>>

\* the strong tier of the family context by age-difference band
StrongBand ==
    IF AgeDiff <= 3 THEN <<"possible twin", 90>>
    ELSE IF AgeDiff <= 8 THEN <<"possible sibling", 85>>
    ELSE IF AgeDiff <= 15 THEN <<"possible cousin", 80>>
    ELSE IF AgeDiff <= 25
    THEN (IF FirstOlder THEN <<"possible uncle/aunt", 80>>
          ELSE <<"possible nephew/niece", 80>>)
    ELSE IF AgeDiff <= 40
    THEN (IF FirstOlder THEN <<"possible parent", 85>> ELSE <<"possible child", 85>>)
    ELSE <<"possible grandparent/grandchild", 75>>

\* what the three tiers of the family context can answer
StrongTier ==
    { <<"possible twin", 90>>, <<"possible sibling", 85>>, <<"possible cousin", 80>>,
      <<"possible uncle/aunt", 80>>, <<"possible nephew/niece", 80>>,
      <<"possible parent", 85>>, <<"possible child", 85>>,
      <<"possible grandparent/grandchild", 75>> }
ModerateTier ==
    { <<"possible sibling", 75>>, <<"possible cousin", 70>>,
      <<"possible uncle/aunt or nephew/niece", 70>>, <<"possible distant relative", 65>> }
WeakTier ==
    { <<"possible distant cousin", 60>>, <<"possible distant relative", 55>>,
      <<"possible extended family", 50>> }

FamilyOutcome == predictor_result.status = "ok" /\ match_context = "family"

\* the parts of the family ladder other than the condition of the moderate tier
FamilyStrongTierAndRange ==
    /\ PredictedType[1] = "family"
    /\ PredictedType[2] >= 50 /\ PredictedType[2] <= 90
    /\ Predicted \in StrongTier \cup ModerateTier \cup WeakTier
    /\ (NameScore > Pct(60)) <=> (Predicted \in StrongTier)
    /\ (NameScore > Pct(60) /\ AgesKnown) => Predicted = StrongBand

BothAgesAvailable ==
    /\ user1.date_of_birth.k = "date"
    /\ user2.date_of_birth.k = "date"

\* the age-band labels of close kin are answered within their bands:
\* "possible twin" (0.9) within 3 years, "possible sibling" (0.75) within 5
CloseKinWithinBand ==
    /\ Predicted = <<"possible twin", 90>> => AgesApart <= 3
    /\ Predicted = <<"possible sibling", 75>> => AgesApart <= 5

\* C28 (ages of one year and more): when both ages are at least 1, the family
\* context answers "possible twin" or the moderate "possible sibling" only
\* within the age band.
C28_CloseKinFromOneYear ==
    ( /\ FamilyOutcome
      /\ BothAgesAvailable
      /\ YearsSince(user1.date_of_birth) >= 1
      /\ YearsSince(user2.date_of_birth) >= 1 ) => CloseKinWithinBand

\* C28: in the family context predict_relationship_type answers "possible
\* twin" with confidence 0.9 (strong tier) or "possible sibling" (moderate
\* tier) only when both ages are available and their difference is within
\* the band (<= 3, resp. <= 5), never for a pair with an unknown age.
C28_CloseKinNeedsAges ==
    (FamilyOutcome /\ Predicted \in {<<"possible twin", 90>>, <<"possible sibling", 75>>}) =>
        /\ BothAgesAvailable
        /\ CloseKinWithinBand

FriendOutcome == predictor_result.status = "ok" /\ match_context = "friend"

CommunityOutcome == predictor_result.status = "ok" /\ match_context = "community"

GeneralOutcome == predictor_result.status = "ok" /\ match_context = "general"

\* C16: the general context answers family with confidence 0.8 iff the name
\* score is > 0.7, otherwise friend with 0.7 iff the overall score is > 0.6,
\* otherwise community with 0.5.
C16_GeneralCollapse ==
    GeneralOutcome =>
        PredictedType =
            (IF NameScore > Pct(70) THEN <<"family", 80>>
             ELSE IF OverallScore > 60 * Unit THEN <<"friend", 70>>
             ELSE <<"community", 50>>)

\* C16 witness: the name score is exactly 0.7 and the overall score exactly
\* 0.6, and the prediction fell through both rules to community.
C16_Witness ==
    /\ GeneralOutcome
    /\ NameScore = Pct(70)
    /\ OverallScore = 60 * Unit
    /\ PredictedType = <<"community", 50>>

\* the contexts with a branch of their own
NamedContexts == {"family", "friend", "community"}

\* the three answers of the fallback branch
FallbackAnswers ==
    { <<"family", "possible relative", 80>>, <<"friend", "possible friend", 70>>,
      <<"community", "possible connection", 50>> }

-----------------------------------------------------------------------------
(* Claims on find_matches (SpecFind) *)

\* the handler of production_main.py has answered with a match list
MainAnswered == response.model_version = "1.0.0-production"

TargetPresent == WithId(db, request.user_id) # <<>>

\* the candidates of the request and the confidence the real engine gives each
Candidates == WithoutId(db, request.user_id)

CandidateConfidence(i) ==
    calculate_match_with_context(WithId(db, request.user_id)[1], Candidates[i],
                                 request.match_context).confidence_score

Qualifying == {i \in 1..Len(Candidates) : CandidateConfidence(i) >= request.min_confidence}

\* C2: for a target present in the pool, the list find_matches of the real
\* engine holds before truncation is exactly the candidates whose confidence is
\* >= min_confidence: none below the threshold, none at or above it left out,
\* never the target, and as many entries as there are qualifying candidates.
C2_ExactlyTheQualifying ==
    (MainAnswered /\ TargetPresent) =>
        /\ \A j \in 1..Len(matches) : matches[j].confidence_score >= request.min_confidence
        /\ \A i \in Qualifying : \E j \in 1..Len(matches) : matches[j].user_id = Candidates[i]._id
        /\ \A j \in 1..Len(matches) : matches[j].user_id # request.user_id
        /\ Len(matches) = Cardinality(Qualifying)

\* C2 witness: the target is in the pool with several candidates and exactly
\* one of them reaches min_confidence.
C2_Witness ==
    /\ MainAnswered /\ TargetPresent
    /\ Len(Candidates) >= 2
    /\ Cardinality(Qualifying) = 1
    /\ Len(matches) = 1

\* C3: the list the real engine returns is the first max_results elements of
\* the filtered outcomes sorted by confidence descending: at most max_results
\* long, non-increasing in confidence, and no filtered-in candidate that was cut
\* off has a confidence strictly greater than a returned one.
C3_FirstMaxResultsSorted ==
    MainAnswered =>
        /\ Len(response.matches) <= request.max_results
        /\ response.matches = SubSeq(matches, 1, Min(request.max_results, Len(matches)))
        /\ \A j \in 1..(Len(response.matches) - 1) :
               response.matches[j].confidence_score
                   >= response.matches[j + 1].confidence_score
        /\ \A i \in 1..Len(matches) :
               (\A j \in 1..Len(response.matches) :
                    response.matches[j].user_id # matches[i].user_id)
               => \A j \in 1..Len(response.matches) :
                      matches[i].confidence_score <= response.matches[j].confidence_score

\* C3 witness: two candidates qualified, the one the pool lists first with the
\* smaller confidence, and max_results = 1 cut the list to the better one.
C3_Witness ==
    /\ MainAnswered /\ TargetPresent
    /\ Len(Candidates) = 2
    /\ CandidateConfidence(1) < CandidateConfidence(2)
    /\ Len(matches) = 2
    /\ request.max_results = 1
    /\ Len(response.matches) = 1
    /\ response.matches[1].user_id = Candidates[2]._id

\* the position of a letter in the alphabet
LetterRank(c) == CHOOSE i \in 1..26 : LowerLetters[i] = c

\* s < t on strings of lower-case letters
RECURSIVE LexLess(_, _)
LexLess(s, t) ==
    IF t = <<>> THEN FALSE
    ELSE IF s = <<>> THEN TRUE
    ELSE IF Head(s) = Head(t) THEN LexLess(Tail(s), Tail(t))
    ELSE LetterRank(Head(s)) < LetterRank(Head(t))

\* C4: whenever two returned outcomes have equal confidence, the one with the
\* lexically smaller candidate id comes first (so that every permutation of the
\* pool gives the same ordered list).
C4_TiesOrderedById ==
    response.kind = "matches" =>
        \A i, j \in 1..Len(response.matches) :
            (i < j /\ response.matches[i].confidence_score
                          = response.matches[j].confidence_score)
            => LexLess(response.matches[i].user_id, response.matches[j].user_id)

\* C5: a valid request whose target id is absent from the pool is not answered
\* with an ordinary match list.
C5_NotFoundSurfaced ==
    (response.kind # "none" /\ ValidMatchRequest(request) /\ ~TargetPresent)
        => response.kind # "matches"

\* spec: minConfidence outside [0,1] or maxResults <= 0
InvalidParameters(req) ==
    req.min_confidence < 0 \/ req.min_confidence > 1000 \/ req.max_results <= 0

\* C6: a request with min_confidence outside [0,1] or max_results <= 0 is
\* rejected before any (target, candidate) pair is evaluated and produces no
\* match list.
C6_InvalidRejectedBeforeEvaluation ==
    (response.kind # "none" /\ InvalidParameters(request))
        => (response.kind = "rejected" /\ evaluated = 0)

\* the target of the request: the user find_matches of the real engine keeps
Target == WithId(db, request.user_id)[Len(WithId(db, request.user_id))]

\* the temporal scorer raises on the pair of the target and some candidate
TemporalScorerRaises ==
    \E i \in 1..Len(Candidates) : calculate_temporal_proximity(Target, Candidates[i]).raised

\* C12: when a sub-scorer raises while a (target, candidate) pair of a valid
\* request is evaluated by the real engine, the request still completes with a
\* match list and every candidate has been evaluated.
C12_ScorerFailureRecovered ==
    (/\ response.kind # "none"
     /\ response.model_version # "2.0.0-production"
     /\ ValidMatchRequest(request)
     /\ TargetPresent
     /\ TemporalScorerRaises)
        => (response.kind = "matches" /\ evaluated = Len(Candidates))

-----------------------------------------------------------------------------
(* Claims on the adaptive weights (SpecWeights) *)

\* C10: for every user profile, calculate_weights returns four strictly positive
\* weights that sum to 1.0, and the base weights of the weighting system are
\* unchanged by the call.
C10_WeightsNormalized ==
    /\ base_weights = AlgorithmWeight
    /\ weights.status = "ok" =>
           /\ weights.value.den > 0
           /\ weights.value.tensorflow > 0 /\ weights.value.nlp > 0
           /\ weights.value.graph > 0 /\ weights.value.genetic > 0
           /\ weights.value.tensorflow + weights.value.nlp + weights.value.graph
                  + weights.value.genetic = weights.value.den

\* C10 witness: the weights of a complete profile with a good name and
\* location, without connections and without genetic data have been computed:
\* two weights were raised, two lowered, and the total before normalization
\* was not 1.0.
C10_Witness ==
    /\ weights.status = "ok"
    /\ calculate_profile_completeness(user_profile) > Pct(80)
    /\ assess_name_location_quality(user_profile) > Pct(80)
    /\ user_profile.connections = 0
    /\ ~user_profile.dna_data /\ ~user_profile.genetic_markers
    /\ weights.value.den # 1000

-----------------------------------------------------------------------------
(* Claims on the ensemble combination (SpecEnsemble) *)

\* the engines whose second call reports the user, given that their first run
\* succeeded
Reporting(user_id) ==
    {alg \in Range(algorithm_names) :
        /\ algorithm_results.value[alg].success
        /\ ~engine_runs[alg].second.raised
        /\ \E i \in 1..Len(engine_runs[alg].second.matches) :
               engine_runs[alg].second.matches[i].user_id = user_id}

Contributors(m) == {m.algorithm_scores[k].algorithm : k \in 1..Len(m.algorithm_scores)}

ContributedScores(m) == {m.algorithm_scores[k].score : k \in 1..Len(m.algorithm_scores)}

RECURSIVE SumOver(_, _)
SumOver(S, f) ==
    IF S = {} THEN 0
    ELSE LET x == CHOOSE y \in S : TRUE IN f[x] + SumOver(S \ {x}, f)

\* C11: for each candidate reported by a non-empty subset S of the successful
\* engines, the ensemble score is the sum over S of score x weight divided by
\* the sum over S of weight; when every contributing score is in [0,1] it lies
\* between the smallest and the largest contributing score, hence in [0,1];
\* an engine whose run failed contributes to no candidate.
C11_EnsembleScoreRenormalized ==
    ensemble_matches.status = "ok" =>
        \A k \in 1..Len(ensemble_matches.value) :
            LET m == ensemble_matches.value[k]
                S == Reporting(m.user_id)
                wd == weight_dict(weights.value)
                score == [alg \in S |->
                             last_confidence(engine_runs[alg].second.matches, m.user_id)]
            IN  /\ S # {}
                /\ Contributors(m) = S
                /\ \A alg \in Contributors(m) : ~engine_runs[alg].first.raised
                /\ m.ensemble_score.den = SumOver(S, wd)
                /\ m.ensemble_score.num = SumOver(S, [alg \in S |-> score[alg] * wd[alg]])
                /\ m.ensemble_score.den > 0
                /\ (\A alg \in S : score[alg] >= 0 /\ score[alg] <= 100) =>
                       /\ m.ensemble_score.num >= 0
                       /\ m.ensemble_score.num <= 100 * m.ensemble_score.den
                       /\ \E lo, hi \in S :
                              /\ score[lo] * m.ensemble_score.den <= m.ensemble_score.num
                              /\ m.ensemble_score.num <= score[hi] * m.ensemble_score.den

\* C11, the other direction: every candidate a successful engine reports has
\* an ensemble match
C11_EveryReportedCombined ==
    ensemble_matches.status = "ok" =>
        \A alg \in Range(algorithm_names) :
            (algorithm_results.value[alg].success /\ ~engine_runs[alg].second.raised) =>
                \A i \in 1..Len(engine_runs[alg].second.matches) :
                    \E k \in 1..Len(ensemble_matches.value) :
                        ensemble_matches.value[k].user_id
                            = engine_runs[alg].second.matches[i].user_id

\* C11 witness: the first run of one engine failed, two of the others report
\* the same candidate with different scores in [0,1], and the ensemble score
\* of that candidate lies strictly between them.
C11_Witness ==
    /\ ensemble_matches.status = "ok"
    /\ \E alg \in Range(algorithm_names) :
           /\ engine_runs[alg].first.raised
           /\ engine_runs[alg].second.matches # <<>>
    /\ \E k \in 1..Len(ensemble_matches.value) :
           LET m == ensemble_matches.value[k]
           IN  /\ m.algorithm_agreement = 2
               /\ ContributedScores(m) = {40, 100}
               /\ 40 * m.ensemble_score.den < m.ensemble_score.num
               /\ m.ensemble_score.num < 100 * m.ensemble_score.den

-----------------------------------------------------------------------------
(* Claims on the family heuristic (SpecFamily) *)

Shares(n1, n2) ==
    advanced_normalize_name(n1) # <<>>
    /\ advanced_normalize_name(n1) = advanced_normalize_name(n2)

SharedParent ==
    \/ Shares(user1.father_name, user2.father_name)
    \/ Shares(user1.mother_name, user2.mother_name)

NamedAsParentOf(u, v) ==
    \/ Shares(FullName(u), v.father_name)
    \/ Shares(FullName(u), v.mother_name)

CrossGenerational == NamedAsParentOf(user1, user2) \/ NamedAsParentOf(user2, user1)

SiblingLabels == { "full sibling", "maternal sibling", "paternal half-sibling" }

FamilyAnalyzed == family_results.status = "ok"

\* C18: for two profiles that share a father name and/or a mother name,
\* analyze_family_relationship returns the same score for (A, B) and (B, A);
\* when neither profile's full name is a parent name of the other, it also
\* returns the same label in both orders, and that label is a sibling label.
C18_FamilySymmetry ==
    (FamilyAnalyzed /\ SharedParent) =>
        /\ family_results.forward.score = family_results.backward.score
        /\ ~CrossGenerational =>
               /\ family_results.forward.relationship = family_results.backward.relationship
               /\ family_results.forward.relationship \in SiblingLabels

\* C18 witness: two profiles whose father names are written differently and
\* normalise to the same name were analysed in both orders.
C18_Witness ==
    /\ FamilyAnalyzed
    /\ Shares(user1.father_name, user2.father_name)
    /\ user1.father_name # user2.father_name
    /\ ~Shares(user1.mother_name, user2.mother_name)
    /\ ~CrossGenerational
    /\ family_results.forward.relationship = "paternal half-sibling"
    /\ family_results.backward.score = Pct(50)

\* C18 as stated: for two profiles that share a father name and/or a mother
\* name, analyze_family_relationship returns the same score and the same
\* relationship label for (A, B) and (B, A).
C18_FamilySymmetryAsStated ==
    (FamilyAnalyzed /\ SharedParent) =>
        /\ family_results.forward.score = family_results.backward.score
        /\ family_results.forward.relationship = family_results.backward.relationship

-----------------------------------------------------------------------------
(* Claims on repeated evaluation (SpecRepeat) *)

EvaluatedTwice == repeat_outcome.status # "none"

SharedFather == Shares(user1.father_name, user2.father_name)
SharedMother == Shares(user1.mother_name, user2.mother_name)
SharedLastName == Shares(user1.last_name, user2.last_name)

\* 0.5 per matching parent name + 0.8 for a full name that is a parent name of
\* the other + 0.2 for equal last names, clamped to 1.0
FamilyScoreAsStated ==
    LET sum == (IF SharedFather THEN Pct(50) ELSE 0)
               + (IF SharedMother THEN Pct(50) ELSE 0)
               + (IF CrossGenerational THEN Pct(80) ELSE 0)
               + (IF SharedLastName THEN Pct(20) ELSE 0)
    IN IF sum > Unit THEN Unit ELSE sum

HalfSiblingLabels == { "half-sibling", "paternal half-sibling", "maternal half-sibling" }

\* C21 (score part): the score analyze_family_relationship returns is
\* min(1.0, 0.5 per matching parent + 0.8 parent/child + 0.2 same last name),
\* and the parent/child rule gives the label parent or child.
C21_FamilyScore ==
    FamilyAnalyzed =>
        /\ family_results.forward.score = FamilyScoreAsStated
        /\ NamedAsParentOf(user1, user2) => family_results.forward.relationship = "parent"
        /\ (NamedAsParentOf(user2, user1) /\ ~NamedAsParentOf(user1, user2))
               => family_results.forward.relationship = "child"

\* C21: the score is min(1.0, 0.5 per matching parent + 0.8 parent/child + 0.2
\* same last name); unless the parent/child rule applies, two shared parents
\* give a sibling label and exactly one shared parent (father only or mother
\* only) gives a half-sibling label.
C21_FamilyScoringAndLabels ==
    FamilyAnalyzed =>
        /\ family_results.forward.score = FamilyScoreAsStated
        /\ ~CrossGenerational =>
               /\ (SharedFather /\ SharedMother)
                      => family_results.forward.relationship \in {"sibling", "full sibling"}
               /\ (SharedFather /\ ~SharedMother)
                      => family_results.forward.relationship \in HalfSiblingLabels
               /\ (SharedMother /\ ~SharedFather)
                      => family_results.forward.relationship \in HalfSiblingLabels

-----------------------------------------------------------------------------
(* Claims on the calibration and the filter (SpecCalibrate) *)

Calibrated == calibrated_matches.status = "ok"

\* the calibrated confidences lie in [0, 1] and do not decrease with the raw score
CalibratedInRangeAndMonotone ==
    \A k \in 1..Len(calibrated_matches.value) :
        /\ calibrated_matches.value[k].confidence_score >= 0
        /\ calibrated_matches.value[k].confidence_score <= Scale
        /\ \A j \in 1..Len(calibrated_matches.value) :
               calibrated_matches.value[j].raw_ensemble_score
                   <= calibrated_matches.value[k].raw_ensemble_score
               => calibrated_matches.value[j].confidence_score
                      <= calibrated_matches.value[k].confidence_score

\* C22 (range part): every calibrated confidence is in [0, 1] and the
\* calibration is non-decreasing in the raw score.
C22_RangeAndMonotone == Calibrated => CalibratedInRangeAndMonotone

\* C22: _calibrate_matches multiplies the raw ensemble score by the reliability
\* constant 0.90 before the logistic squash, and the result is in [0, 1] and
\* non-decreasing in the raw score.
C22_EnsembleCalibration ==
    Calibrated =>
        /\ \A k \in 1..Len(calibrated_matches.value) :
               calibrated_matches.value[k].confidence_score
                   = sigmoid(calibrated_matches.value[k].raw_ensemble_score * 90)
        /\ CalibratedInRangeAndMonotone

Ranked == final_matches.status = "ok"

\* the threshold the request asks for: its min_confidence, 0.5 when absent
RequestedThreshold ==
    IF ensemble_request.min_confidence.isNone THEN 50 * (Scale \div 100)
    ELSE ensemble_request.min_confidence.v * (Scale \div 100)

RequestedLimit ==
    IF ensemble_request.max_results.isNone THEN 50 ELSE ensemble_request.max_results.v

QualifyingCalibrated ==
    { k \in 1..Len(calibrated_matches.value) :
          calibrated_matches.value[k].confidence_score >= RequestedThreshold }

\* C25: _filter_and_rank_matches keeps exactly the candidates whose calibrated
\* confidence is >= the request's own min_confidence, for every value in
\* [0, 1] (0.0 keeps them all), up to max_results; 0.5 is the threshold only
\* when min_confidence is absent.
C25_OwnThresholdApplied ==
    Ranked =>
        /\ Len(final_matches.value)
               = IF Cardinality(QualifyingCalibrated) <= RequestedLimit
                 THEN Cardinality(QualifyingCalibrated) ELSE RequestedLimit
        /\ \A i \in 1..Len(final_matches.value) :
               \E k \in QualifyingCalibrated :
                   calibrated_matches.value[k].user_id = final_matches.value[i].user_id

\* C25 (present and positive, or absent): the same statement for the requests
\* whose min_confidence is absent or above 0.
C25_ThresholdWhenPositiveOrAbsent ==
    (Ranked /\ (ensemble_request.min_confidence.isNone
                \/ ensemble_request.min_confidence.v > 0))
        => C25_OwnThresholdApplied

-----------------------------------------------------------------------------
(* Claims on the calibration feedback (SpecFeedback) *)

\* the last n elements of a list, all of it when it is shorter
LastOf(list, n) ==
    IF Len(list) <= n THEN list ELSE [i \in 1..n |-> list[Len(list) - n + i]]

\* C23: after any sequence of update_calibration calls the stored feedback
\* holds at most 10,000 pairs, and they are exactly the most recently
\* ingested pairs in ingestion order, a call with lists of different lengths
\* ingesting only the pairs up to the shorter length.
C23_RecentFeedbackKept ==
    /\ Len(calibration_data) <= 10000
    /\ calibration_data = LastOf(ingested, 10000)

\* C23 witness: a full store took in one more pair: the oldest pair is gone,
\* the second oldest is now first and the new pair is last.
C23_Witness ==
    /\ update_calls = 1
    /\ Len(ingested) = 10001
    /\ Len(calibration_data) = 10000
    /\ calibration_data[1] = <<2, TRUE>>
    /\ calibration_data[10000] = <<20, TRUE>>

-----------------------------------------------------------------------------
(* Claims on the temporal scorer (SpecTemporal) *)

TemporalScored ==
    /\ temporal_results.status = "ok"
    /\ user1.created_at.k = "time"
    /\ user2.created_at.k = "time"

\* the time between the two sign-ups, in hours
HoursApart ==
    IF user1.created_at.h >= user2.created_at.h
    THEN user1.created_at.h - user2.created_at.h
    ELSE user2.created_at.h - user1.created_at.h

\* <= 7 days 0.8, <= 30 days 0.5, <= 90 days 0.2, else 0.0
StatedTemporalBand ==
    IF HoursApart <= 7 * 24 THEN Pct(80)
    ELSE IF HoursApart <= 30 * 24 THEN Pct(50)
    ELSE IF HoursApart <= 90 * 24 THEN Pct(20)
    ELSE 0

TemporalSymmetric ==
    /\ temporal_results.forward.score = temporal_results.backward.score
    /\ temporal_results.forward.reasons = temporal_results.backward.reasons

\* C26 (whole days): for two sign-up times a whole number of days apart the
\* temporal scorer is symmetric and follows the bands.
C26_SymmetricOnWholeDays ==
    (TemporalScored /\ HoursApart % 24 = 0) =>
        /\ TemporalSymmetric
        /\ temporal_results.forward.score = StatedTemporalBand

\* C26: for any two sign-up timestamps, a non-whole number of days apart
\* included, calculate_temporal_proximity(A, B) and (B, A) return the same
\* score and reasons, and the score follows the bands <= 7 days 0.8,
\* <= 30 days 0.5, <= 90 days 0.2, else 0.0.
C26_TemporalSymmetry ==
    TemporalScored =>
        /\ TemporalSymmetric
        /\ temporal_results.forward.score = StatedTemporalBand
        /\ temporal_results.backward.score = StatedTemporalBand

\* C26 (symmetry alone): the two orders give the same score and reasons.
C26_SymmetryAlone == TemporalScored => TemporalSymmetric

-----------------------------------------------------------------------------
(* Claims on the in-memory cache (SpecCache) *)

\* the call made last was get(key) for a key that has been set
GotSetKey == last_call.op = "get" /\ last_call.key \in DOMAIN recent_set

\* the time the most recent set of the key read last runs out: its time plus its ttl
StatedExpiry == recent_set[last_call.key].at + recent_set[last_call.key].ttl

\* the value map and the timestamp map hold the same keys
SameKeys == DOMAIN in_memory_cache = DOMAIN cache_timestamps

\* get answers a value only for a key whose most recent set is less than its
\* ttl ago, and then the value of that set
FreshValueOnly ==
    (last_call.op = "get" /\ last_call.hit) =>
        /\ GotSetKey
        /\ clock < StatedExpiry
        /\ last_call.value = recent_set[last_call.key].value

\* a get at or after the expiry answers nothing and leaves the key in neither map
ExpiredRemoved ==
    (GotSetKey /\ clock >= StatedExpiry) =>
        /\ ~last_call.hit
        /\ last_call.key \notin DOMAIN in_memory_cache
        /\ last_call.key \notin DOMAIN cache_timestamps

\* C30 (what get answers): after any sequence of set, get and cleanup calls
\* at non-decreasing times, get answers a value only if the most recent set
\* of the key is less than its ttl ago, and then that value; a get at or
\* after the expiry answers nothing and removes the key from both maps.
C30_GetAnswersFreshOnly == FreshValueOnly /\ ExpiredRemoved

\* C30 (no set has raised): as long as every set could compute its expiry
\* time, the two maps hold the same keys.
C30_SameKeysUnlessRaised == ~set_raised => SameKeys

\* C30: in-memory mode of CacheManager: after any sequence of set, get and
\* cleanup operations at non-decreasing times, get(key) returns a value only
\* if the most recent set of that key happened less than its ttl ago, and
\* then that most recent value; a get at or after expiry returns nothing and
\* removes the key from both the value map and the timestamp map, which
\* always hold the same set of keys.
C30_CacheAsStated == FreshValueOnly /\ ExpiredRemoved /\ SameKeys

=============================================================================
